---- MODULE Spec2Model ----
(***************************************************************************)
(* wpsmith: the checkpoint commands (src/commands/checkpoint.ts) over the  *)
(* project's files, and the blueprint.json configuration document          *)
(* (src/lib/config.ts), and the serve command (src/commands/serve.ts)      *)
(* over the events of the Playground server it starts.                     *)
(*                                                                         *)
(* A file's content is a string ("" is the zero-byte file); the file       *)
(* system is a function from the paths that exist to their contents.       *)
(* Under Spec each command is one action: the commands of one project are *)
(* run one after the other and run to their end. Under CrashSpec a command *)
(* may be killed on its way; under ConcSpec two commands run side by side, *)
(* one awaited file operation at a time.                                   *)
(***************************************************************************)
EXTENDS Integers, Sequences, FiniteSets, TLC

VARIABLES
  files,    \* path -> content, for every regular file that exists
  cpDir,    \* whether the checkpoints directory exists
  meta,     \* checkpoints/meta.json: [kind, checkpoints]
  now,      \* the wall clock, in milliseconds
  last,     \* the last invocation: what it was given and how it ended
  out,      \* the rows the last invocation printed (checkpoint:list)
  log,      \* history: the snapshots taken and not deleted, oldest first
  blueprintFile,  \* blueprint.json: [kind, doc]
  call,     \* the last call into lib/config: what it was given and returned
  run,      \* the commands running side by side: each one's position and locals
  serve     \* the serve command: its locals, what it has shown, how it ended

storeVars == <<files, cpDir, meta, now, last, out, log>>
cfgVars == <<blueprintFile, call, serve>>
vars == <<files, cpDir, meta, now, last, out, log, blueprintFile, call, run,
          serve>>

(***************************************************************************)
(* Bounds of the model.                                                    *)
(***************************************************************************)
MaxTime == 2

\* what the live database may hold
Contents == {"", "A"}
\* names a user passes to the commands; "./a" joins to the same path as "a"
UserNames == {"a", "./a"}
\* an argument left out reaches the handler as undefined, which is falsy
\* like the empty string
Omitted == ""
\* the --description option: left out, or a text
NoDescription == [given |-> FALSE, text |-> ""]
Described(text) == [given |-> TRUE, text |-> text]
\* what checkpoint is run with: a generated name without a description, or a
\* name of the user's with one, so that an index holds records of both shapes
CreateInputs ==
  {[name |-> Omitted, description |-> NoDescription]}
    \cup {[name |-> n, description |-> Described("before")] : n \in UserNames}

(***************************************************************************)
(* Paths.                                                                  *)
(***************************************************************************)
dbPath == "wp-content/database/.ht.sqlite"
checkpointDir == "wp-content/database/checkpoints"
Sidecars == {"-journal", "-wal", "-shm"}
SidecarPaths == {dbPath \o s : s \in Sidecars}

\* path.join normalises its result: a leading "./" segment of the joined
\* part disappears
RECURSIVE NormalizeRel(_)
NormalizeRel(p) ==
  IF Len(p) >= 2 /\ SubSeq(p, 1, 2) = "./"
    THEN NormalizeRel(SubSeq(p, 3, Len(p)))
    ELSE p

PathJoin(dir, file) == dir \o "/" \o NormalizeRel(file)

\* `${checkpointName}.sqlite`
CheckpointFile(checkpointName) == checkpointName \o ".sqlite"

\* `checkpoint-${timestamp}`
AutoName(timestamp) == "checkpoint-" \o ToString(timestamp)

\* name || `checkpoint-${timestamp}`
CheckpointName(name, timestamp) ==
  IF name = Omitted THEN AutoName(timestamp) ELSE name

\* new Date().toISOString(), for the first milliseconds of the epoch
ISOString(t) == "1970-01-01T00:00:00.00" \o ToString(t) \o "Z"

\* the names rollback and checkpoint:delete are given: a user's names and
\* the generated ones
ArgNames == UserNames \cup {AutoName(t) : t \in 1..MaxTime}

(***************************************************************************)
(* fs-extra.                                                               *)
(***************************************************************************)
pathExists(fs, p) == p \in DOMAIN fs

\* fs.copy(src, dst): dst holds src's bytes afterwards
copy(fs, src, dst) ==
  [p \in DOMAIN fs \cup {dst} |-> IF p = dst THEN fs[src] ELSE fs[p]]

\* a mistaken removal: the file stays
remove_kept(fs, p) == fs

\* fs.remove(p): no error when p does not exist
remove(fs, p) == [q \in DOMAIN fs \ {p} |-> fs[q]]

\* a mistaken loop: it returns after the first removal
removeAll_first(fs, ps) ==
  IF ps = {} THEN fs ELSE remove(fs, CHOOSE q \in ps : TRUE)

\* one fs.remove after the other, each with its error caught
RECURSIVE removeAll(_, _)
removeAll(fs, ps) ==
  IF ps = {} THEN fs
  ELSE LET p == CHOOSE q \in ps : TRUE
       IN  removeAll(remove(fs, p), ps \ {p})

\* fs.readJSON(metaPath).catch(() => ({ checkpoints: [] }))
EmptyMeta == [checkpoints |-> <<>>]
readMeta(m) ==
  IF m.kind = "json" THEN [checkpoints |-> m.checkpoints] ELSE EmptyMeta

\* fs.writeJSON(metaPath, meta, { spaces: 2 })
writeMeta(cps) == [kind |-> "json", checkpoints |-> cps]

MetaMissing == [kind |-> "missing", checkpoints |-> <<>>]

(***************************************************************************)
(* Array helpers.                                                          *)
(***************************************************************************)
\* Array.prototype.findIndex, 1-based; 0 stands for -1
findIndex(cps, name) ==
  IF \E i \in 1..Len(cps) : cps[i].name = name
    THEN CHOOSE i \in 1..Len(cps) :
           /\ cps[i].name = name
           /\ \A j \in 1..(i - 1) : cps[j].name # name
    ELSE 0

\* a mistaken removal: the last element goes, whatever the index
splice_pop(cps, index) == SubSeq(cps, 1, Len(cps) - 1)

\* Array.prototype.splice(index, 1)
splice(cps, index) ==
  [i \in 1..(Len(cps) - 1) |-> IF i < index THEN cps[i] ELSE cps[i + 1]]

\* a mistaken order: the rows come out oldest first
reverse_kept(s) == s

\* [...array].reverse()
reverse(s) == [i \in 1..Len(s) |-> s[Len(s) + 1 - i]]

\* the record Create pushes; JSON drops a description that is undefined
NewRecord(checkpointName, created, description) ==
  IF description.given
    THEN [name |-> checkpointName, created |-> created,
          file |-> CheckpointFile(checkpointName),
          description |-> description.text]
    ELSE [name |-> checkpointName, created |-> created,
          file |-> CheckpointFile(checkpointName)]

\* what an invocation leaves in `last`: the command, the name it was given,
\* the checkpoint it resolved to, how it ended, for rollback the live
\* content it replaced and the number of database files it removed, for
\* delete the number of files it removed, for clear its option, whether it
\* put its question, the answer and the number it reports, and where it
\* stopped: at its end, or at the point its process was killed
Result(op, name, target, outcome) ==
  [op |-> op, name |-> name, target |-> target, outcome |-> outcome,
   replaced |-> {}, force |-> FALSE, confirm |-> FALSE, count |-> 0,
   at |-> "end", asked |-> FALSE]

\* history: the log without the snapshots of the given names (a log all of
\* whose records were lost with the index starts again empty)
LogWithout(l, names) ==
  LET keep == {i \in 1..Len(l) : l[i].name \notin names}
      RECURSIVE pick(_)
      pick(i) == IF i > Len(l) THEN <<>>
                 ELSE IF i \in keep THEN <<l[i]>> \o pick(i + 1)
                 ELSE pick(i + 1)
  IN  pick(1)

(***************************************************************************)
(* checkpoint [name] [-d text]                                             *)
(***************************************************************************)
\* a mistaken check: the file name looked up in the working directory
alreadyExists_cwd(fs, checkpointPath) ==
  pathExists(fs, SubSeq(checkpointPath, Len(checkpointDir) + 2,
                        Len(checkpointPath)))

\* "Check if checkpoint already exists": the directory is asked, not the index
alreadyExists(fs, checkpointPath) == pathExists(fs, checkpointPath)

\* a mistaken order: the directory made before the database is looked for
CreateNoLiveData_ensured(name) ==
  /\ cpDir' = TRUE
  /\ last' = Result("create", name, CheckpointName(name, now), "NoLiveData")
  /\ UNCHANGED <<files, meta, now, log>>

\* no database: process.exit(1) before ensureDir
CreateNoLiveData(name) ==
  /\ last' = Result("create", name, CheckpointName(name, now), "NoLiveData")
  /\ UNCHANGED <<files, cpDir, meta, now, log>>

\* the path is taken: process.exit(1) after ensureDir
CreateDuplicate(name) ==
  /\ cpDir' = TRUE
  /\ last' = Result("create", name, CheckpointName(name, now), "DuplicateName")
  /\ UNCHANGED <<files, meta, now, log>>

\* a mistaken push: the record is put at the head of the index (unshift)
CreateCopy_unshift(name, description, elapsed) ==
  LET checkpointName == CheckpointName(name, now)
      checkpointPath == PathJoin(checkpointDir, CheckpointFile(checkpointName))
      m == readMeta(meta)
      pushed == <<NewRecord(checkpointName, ISOString(now + elapsed),
                            description)>> \o m.checkpoints
  IN
  /\ now' = now + elapsed
  /\ cpDir' = TRUE
  /\ files' = copy(files, dbPath, checkpointPath)
  /\ meta' = writeMeta(pushed)
  /\ last' = Result("create", name, checkpointName, "ok")
  /\ log' = Append(log, [name |-> checkpointName, content |-> files[dbPath]])

\* copy the database, push the record, write the index; the record's
\* created is read from the clock after the copy, `elapsed` later than the
\* timestamp of the name
CreateCopy(name, description, elapsed) ==
  LET checkpointName == CheckpointName(name, now)
      checkpointPath == PathJoin(checkpointDir, CheckpointFile(checkpointName))
      m == readMeta(meta)
      pushed == Append(m.checkpoints,
                       NewRecord(checkpointName, ISOString(now + elapsed),
                                 description))
  IN
  /\ now' = now + elapsed
  /\ cpDir' = TRUE
  /\ files' = copy(files, dbPath, checkpointPath)
  /\ meta' = writeMeta(pushed)
  /\ last' = Result("create", name, checkpointName, "ok")
  /\ log' = Append(log, [name |-> checkpointName, content |-> files[dbPath]])

Create(name, description, elapsed) ==
  LET checkpointName == CheckpointName(name, now)
      checkpointPath == PathJoin(checkpointDir, CheckpointFile(checkpointName))
  IN
  /\ now + elapsed <= MaxTime
  /\ UNCHANGED <<cfgVars, run>>
  /\ out' = <<>>
  /\ IF ~pathExists(files, dbPath) THEN CreateNoLiveData(name)
     ELSE IF alreadyExists(files, checkpointPath) THEN CreateDuplicate(name)
     ELSE CreateCopy(name, description, elapsed)

(***************************************************************************)
(* checkpoint:list                                                         *)
(***************************************************************************)
\* one row of the table: the size column reads N/A when the file is gone
Row(fs, cp) ==
  [name |-> cp.name, created |-> cp.created,
   hasSize |-> pathExists(fs, PathJoin(checkpointDir, cp.file))]

List ==
  LET m == readMeta(meta)
      newestFirst == reverse(m.checkpoints)
  IN
  /\ UNCHANGED <<cfgVars, run>>
  /\ out' = [i \in 1..Len(newestFirst) |-> Row(files, newestFirst[i])]
  /\ last' = Result("list", Omitted, Omitted, "ok")
  /\ UNCHANGED <<files, cpDir, meta, now, log>>

(***************************************************************************)
(* rollback [name]                                                         *)
(***************************************************************************)
\* a mistaken selection: the name is ignored
Selected_latest(cps, name) == cps[Len(cps)]

\* a mistaken selection: the oldest record when no name is given
Selected_oldest(cps, name) ==
  IF name # Omitted THEN cps[findIndex(cps, name)] ELSE cps[1]

\* the record rollback selects, when there is one
Selected(cps, name) ==
  IF name # Omitted THEN cps[findIndex(cps, name)] ELSE cps[Len(cps)]

\* the live content a rollback replaces: none when there is no database
LiveContent(fs) == IF pathExists(fs, dbPath) THEN {fs[dbPath]} ELSE {}

\* a mistaken rollback: the checkpoint file is not looked for
fileMissing_unchecked(fs, checkpointPath) == FALSE

\* "Verify checkpoint file exists"
fileMissing(fs, checkpointPath) == ~pathExists(fs, checkpointPath)

\* a mistaken rollback: the snapshot is moved over the database, not copied
restored_moved(fs, checkpointPath) ==
  LET removed == removeAll(fs, {dbPath} \cup SidecarPaths)
  IN  IF pathExists(fs, checkpointPath)
        THEN remove(copy(removed, checkpointPath, dbPath), checkpointPath)
        ELSE removed

\* a mistaken removal: the write-ahead log and its index are left behind
restored_journalOnly(fs, checkpointPath) ==
  LET removed == removeAll(fs, {dbPath, dbPath \o "-journal"})
  IN  IF pathExists(fs, checkpointPath)
        THEN copy(removed, checkpointPath, dbPath)
        ELSE removed

\* the four removals, then the copy; fs.copy throws when the checkpoint file
\* is not there, with the database already removed
restored(fs, checkpointPath) ==
  LET removed == removeAll(fs, {dbPath} \cup SidecarPaths)
  IN  IF pathExists(fs, checkpointPath)
        THEN copy(removed, checkpointPath, dbPath)
        ELSE removed

Restore(name) ==
  LET m == readMeta(meta)
      cps == m.checkpoints
  IN
  /\ UNCHANGED <<cfgVars, run>>
  /\ out' = <<>>
  /\ UNCHANGED <<cpDir, meta, now, log>>
  /\ IF Len(cps) = 0
       THEN /\ last' = Result("restore", name, name, "NotFound")
            /\ UNCHANGED files
       ELSE IF name # Omitted /\ findIndex(cps, name) = 0
       THEN /\ last' = Result("restore", name, name, "NotFound")
            /\ UNCHANGED files
       ELSE LET checkpoint == Selected(cps, name)
                checkpointPath == PathJoin(checkpointDir, checkpoint.file)
            IN  IF fileMissing(files, checkpointPath)
                  THEN /\ last' = Result("restore", name, checkpoint.name,
                                         "MissingFile")
                       /\ UNCHANGED files
                  ELSE /\ files' = restored(files, checkpointPath)
                       /\ last' = [Result("restore", name, checkpoint.name,
                                          IF pathExists(files, checkpointPath)
                                            THEN "ok" ELSE "Failed")
                                     EXCEPT !.replaced = LiveContent(files),
                                            !.count = Cardinality(
                                              DOMAIN files \cap
                                                ({dbPath} \cup SidecarPaths))]

(***************************************************************************)
(* checkpoint:delete <name>                                                *)
(***************************************************************************)
\* a mistaken delete: a record whose file is gone is reported as not found
Delete_strict(name) ==
  LET m == readMeta(meta)
      cps == m.checkpoints
      index == findIndex(cps, name)
  IN
  /\ UNCHANGED <<cfgVars, run>>
  /\ out' = <<>>
  /\ UNCHANGED <<cpDir, now>>
  /\ IF index = 0 \/ ~pathExists(files, PathJoin(checkpointDir, name \o ".sqlite"))
       THEN /\ last' = Result("delete", name, name, "NotFound")
            /\ UNCHANGED <<files, meta, log>>
       ELSE /\ files' = remove(files, PathJoin(checkpointDir, cps[index].file))
            /\ meta' = writeMeta(splice(cps, index))
            /\ last' = [Result("delete", name, name, "ok") EXCEPT !.count = 1]
            /\ log' = LogWithout(log, {name})

Delete(name) ==
  LET m == readMeta(meta)
      cps == m.checkpoints
      index == findIndex(cps, name)
  IN
  /\ UNCHANGED <<cfgVars, run>>
  /\ out' = <<>>
  /\ UNCHANGED <<cpDir, now>>
  /\ IF index = 0
       THEN /\ last' = Result("delete", name, name, "NotFound")
            /\ UNCHANGED <<files, meta, log>>
       ELSE LET checkpointPath == PathJoin(checkpointDir, cps[index].file)
            IN  /\ files' = remove(files, checkpointPath)
                /\ meta' = writeMeta(splice(cps, index))
                /\ last' = [Result("delete", name, name, "ok") EXCEPT
                              !.count = IF pathExists(files, checkpointPath)
                                          THEN 1 ELSE 0]
                /\ log' = LogWithout(log, {name})

(***************************************************************************)
(* checkpoint:clear [-f]                                                   *)
(***************************************************************************)
\* a mistaken clear: the answer to the question is not looked at
Clear_unheeded(force, confirm) ==
  LET m == readMeta(meta)
      cps == m.checkpoints
      paths == {PathJoin(checkpointDir, cps[i].file) : i \in 1..Len(cps)}
      result(outcome) == [Result("clear", Omitted, Omitted, outcome)
                            EXCEPT !.force = force, !.confirm = confirm,
                                   !.asked = ~force]
  IN
  /\ UNCHANGED <<cfgVars, run>>
  /\ out' = <<>>
  /\ UNCHANGED <<cpDir, now>>
  /\ IF Len(cps) = 0
       THEN /\ last' = [result("empty") EXCEPT !.asked = FALSE]
            /\ UNCHANGED <<files, meta, log>>
       ELSE /\ files' = removeAll(files, paths)
            /\ meta' = writeMeta(<<>>)
            /\ last' = [result("ok") EXCEPT !.count = Len(cps)]
            /\ log' = <<>>

Clear(force, confirm) ==
  LET m == readMeta(meta)
      cps == m.checkpoints
      paths == {PathJoin(checkpointDir, cps[i].file) : i \in 1..Len(cps)}
      result(outcome) == [Result("clear", Omitted, Omitted, outcome)
                            EXCEPT !.force = force, !.confirm = confirm]
      asked(outcome) == [result(outcome) EXCEPT !.asked = ~force]
  IN
  /\ UNCHANGED <<cfgVars, run>>
  /\ out' = <<>>
  /\ UNCHANGED <<cpDir, now>>
  /\ IF Len(cps) = 0
       THEN /\ last' = result("empty")
            /\ UNCHANGED <<files, meta, log>>
       ELSE IF ~force /\ ~confirm
       THEN /\ last' = asked("cancelled")
            /\ UNCHANGED <<files, meta, log>>
       ELSE /\ files' = removeAll(files, paths)
            /\ meta' = writeMeta(<<>>)
            /\ last' = [asked("ok") EXCEPT !.count = Len(cps)]
            /\ log' = <<>>

(***************************************************************************)
(* The surroundings: the Playground server that serve starts writes the    *)
(* mounted database; db:fresh removes it and reinstalls; time passes.      *)
(***************************************************************************)
\* SQLite leaves no sidecar, a rollback journal, or a write-ahead log
SidecarSets == {{}, {"-journal"}, {"-wal", "-shm"}}

ServerWrite(c, sc) ==
  /\ UNCHANGED <<cfgVars, run>>
  /\ files' = [p \in ((DOMAIN files \ SidecarPaths) \cup {dbPath}
                      \cup {dbPath \o s : s \in sc}) |->
                 IF p = dbPath THEN c
                 ELSE IF p \in SidecarPaths THEN "" ELSE files[p]]
  /\ files' # files
  /\ last' = Result("server", Omitted, Omitted, "ok")
  /\ out' = <<>>
  /\ UNCHANGED <<cpDir, meta, now, log>>

\* a mistaken reset: the whole wp-content/database directory is removed,
\* the checkpoints in it too
DbFresh_wiped(installed, c) ==
  /\ UNCHANGED <<cfgVars, run>>
  /\ files' = IF installed THEN [p \in {dbPath} |-> c]
                ELSE [p \in {} |-> ""]
  /\ cpDir' = FALSE
  /\ meta' = MetaMissing
  /\ last' = Result("db:fresh", Omitted, Omitted,
                    IF installed THEN "ok" ELSE "failed")
  /\ out' = <<>>
  /\ UNCHANGED <<now, log>>

\* db:fresh: the SQLite files go; wp core install writes a new database, or
\* fails and leaves none
DbFresh(installed, c) ==
  LET removed == removeAll(files, {dbPath} \cup SidecarPaths)
  IN
  /\ UNCHANGED <<cfgVars, run>>
  /\ files' = IF installed
                THEN [p \in DOMAIN removed \cup {dbPath} |->
                        IF p = dbPath THEN c ELSE removed[p]]
                ELSE removed
  /\ last' = Result("db:fresh", Omitted, Omitted,
                    IF installed THEN "ok" ELSE "failed")
  /\ out' = <<>>
  /\ UNCHANGED <<cpDir, meta, now, log>>

\* time passes between two commands
Tick ==
  /\ UNCHANGED <<cfgVars, run>>
  /\ now < MaxTime
  /\ now' = now + 1
  /\ last' = Result("tick", Omitted, Omitted, "ok")
  /\ out' = <<>>
  /\ UNCHANGED <<files, cpDir, meta, log>>

(***************************************************************************)
(* A command whose process is killed on its way (Ctrl-C, power loss): what *)
(* it did up to the point it had reached stays done. The points are the    *)
(* ends of the awaited file operations; a copy or an index write cut short *)
(* leaves the file it was writing incomplete.                              *)
(***************************************************************************)
\* meta.json with part of its text: fs.readJSON throws on it
MetaTorn == [kind |-> "corrupt", checkpoints |-> <<>>]

\* a file with part of its bytes
Truncated(c) == ""

Interrupted(op, name, target, point) ==
  [Result(op, name, target, "Interrupted") EXCEPT !.at = point]

\* checkpoint, killed after ensureDir, in or after the copy, or in writeJSON
CreatePoints == {"ensured", "copying", "copied", "writing"}

CreateCrash(name, point) ==
  LET checkpointName == CheckpointName(name, now)
      checkpointPath == PathJoin(checkpointDir, CheckpointFile(checkpointName))
      copied == copy(files, dbPath, checkpointPath)
  IN
  /\ pathExists(files, dbPath)
  /\ ~alreadyExists(files, checkpointPath)
  /\ UNCHANGED <<cfgVars, run>>
  /\ cpDir' = TRUE
  /\ files' = CASE point = "ensured" -> files
               [] point = "copying" ->
                    [copied EXCEPT ![checkpointPath] = Truncated(files[dbPath])]
               [] OTHER -> copied
  /\ meta' = IF point = "writing" THEN MetaTorn ELSE meta
  /\ last' = Interrupted("create", name, checkpointName, point)
  /\ out' = <<>>
  /\ log' = IF point = "writing" THEN <<>> ELSE log
  /\ UNCHANGED now

\* a mistaken order: the index is written before the file is removed
deleteKilled_indexFirst(fs, m, index, point) ==
  [files |-> fs, meta |-> writeMeta(splice(m.checkpoints, index))]

\* checkpoint:delete, killed after the removal or in writeJSON: the files
\* and the index it leaves
DeletePoints == {"removed", "writing"}
deleteKilled(fs, m, index, point) ==
  [files |-> remove(fs, PathJoin(checkpointDir, m.checkpoints[index].file)),
   meta |-> IF point = "writing" THEN MetaTorn ELSE m]

DeleteCrash(name, point) ==
  LET m == readMeta(meta)
      index == findIndex(m.checkpoints, name)
      left == deleteKilled(files, meta, index, point)
  IN
  /\ index # 0
  /\ UNCHANGED <<cfgVars, run>>
  /\ files' = left.files
  /\ meta' = left.meta
  /\ last' = Interrupted("delete", name, name, point)
  /\ out' = <<>>
  /\ log' = IF point = "writing" THEN <<>> ELSE log
  /\ UNCHANGED <<cpDir, now>>

\* checkpoint:clear, forced or confirmed, killed in its loop after k
\* removals, or in writeJSON after all of them
ClearPoints == {"removing", "writing"}

ClearCrash(k, point) ==
  LET m == readMeta(meta)
      cps == m.checkpoints
      n == k
      paths == {PathJoin(checkpointDir, cps[i].file) : i \in 1..n}
  IN
  /\ Len(cps) > 0
  /\ k \in 1..Len(cps)
  /\ point = "writing" => k = Len(cps)
  /\ UNCHANGED <<cfgVars, run>>
  /\ files' = removeAll(files, paths)
  /\ meta' = IF point = "writing" THEN MetaTorn ELSE meta
  /\ last' = [Interrupted("clear", Omitted, Omitted, point) EXCEPT !.count = n]
  /\ out' = <<>>
  /\ log' = IF point = "writing" THEN <<>> ELSE log
  /\ UNCHANGED <<cpDir, now>>

\* the order of rollback's removals
RemovalOrder ==
  <<dbPath, dbPath \o "-journal", dbPath \o "-wal", dbPath \o "-shm">>

\* rollback, killed after k of its removals, or in the copy
RestorePoints == {"removing", "copying"}

RestoreCrash(name, k, point) ==
  LET m == readMeta(meta)
      cps == m.checkpoints
      checkpoint == Selected(cps, name)
      checkpointPath == PathJoin(checkpointDir, checkpoint.file)
      n == k
      removed == removeAll(files, {RemovalOrder[i] : i \in 1..n})
  IN
  /\ Len(cps) > 0
  /\ name # Omitted => findIndex(cps, name) # 0
  /\ ~fileMissing(files, checkpointPath)
  /\ k \in 1..Len(RemovalOrder)
  /\ point = "copying" => k = Len(RemovalOrder)
  /\ UNCHANGED <<cfgVars, run>>
  /\ files' = IF point = "copying"
                THEN [p \in DOMAIN removed \cup {dbPath} |->
                        IF p = dbPath THEN Truncated(files[checkpointPath])
                        ELSE removed[p]]
                ELSE removed
  /\ last' = [Interrupted("restore", name, checkpoint.name, point)
                EXCEPT !.count = n]
  /\ out' = <<>>
  /\ UNCHANGED <<cpDir, meta, now, log>>

(***************************************************************************)
(* Two commands of one project running side by side, each a process of     *)
(* its own: a command is a sequence of awaited file operations, and the    *)
(* operations of the two interleave. Nothing locks the index.              *)
(***************************************************************************)
MaxRuns == 3

Procs == {1, 2}

\* a command's position and locals: the arguments, the checkpoint it
\* resolved to, the index as it read it, a loop or array position, and how
\* it ended; as history, whether another command wrote the index between
\* this one's read and its write
NoRun ==
  [op |-> "none", pc |-> "idle", name |-> Omitted, description |-> NoDescription,
   force |-> FALSE, target |-> Omitted, cps |-> <<>>, k |-> 0,
   outcome |-> "none", raced |-> FALSE]
\* with them, the number of commands started and, as history, the records
\* (name and created) that a delete or a clear took out of the index and no
\* later checkpoint of the name put back
NoRuns == [proc |-> [p \in Procs |-> NoRun], started |-> 0, gone |-> {}]

Key(cp) == <<cp.name, cp.created>>
Keys(cps) == {Key(cps[i]) : i \in 1..Len(cps)}

\* process p moves on
Ends(p, outcome) ==
  run' = [run EXCEPT !.proc[p].pc = "done", !.proc[p].outcome = outcome]
Goes(p, pc) == run' = [run EXCEPT !.proc[p].pc = pc]

Running(p, op, pc) == run.proc[p].op = op /\ run.proc[p].pc = pc

\* the command holds the index it read and has yet to write it
HoldsIndex(r) ==
  \/ r.op = "create" /\ r.pc = "write"
  \/ r.op = "delete" /\ r.pc \in {"remove", "write"}
  \/ r.op = "clear" /\ r.pc \in {"prompt", "remove", "write"}

\* process p has written the index and ended; the others that hold the
\* index as they read it have been overtaken
Written(p, gone) ==
  run' = [proc |-> [q \in Procs |->
                      IF q = p
                        THEN [run.proc[q] EXCEPT !.pc = "done", !.outcome = "ok"]
                        ELSE IF HoldsIndex(run.proc[q])
                          THEN [run.proc[q] EXCEPT !.raced = TRUE]
                          ELSE run.proc[q]],
          started |-> run.started,
          gone |-> gone]

\* a shell starts a command
Start(p, op, name, description, force) ==
  /\ run.proc[p].pc \in {"idle", "done"}
  /\ run.started < MaxRuns
  /\ run' = [proc |-> [run.proc EXCEPT ![p] =
                         [NoRun EXCEPT !.op = op, !.pc = "begin", !.name = name,
                                       !.description = description,
                                       !.force = force]],
             started |-> run.started + 1,
             gone |-> run.gone]
  /\ UNCHANGED <<storeVars, cfgVars>>

\* checkpoint: if (!await fs.pathExists(dbPath))
CreateBegin(p) ==
  /\ Running(p, "create", "begin")
  /\ IF pathExists(files, dbPath) THEN Goes(p, "ensure")
     ELSE Ends(p, "NoLiveData")
  /\ UNCHANGED <<storeVars, cfgVars>>

\* await fs.ensureDir(checkpointDir)
CreateEnsure(p) ==
  /\ Running(p, "create", "ensure")
  /\ cpDir' = TRUE
  /\ Goes(p, "check")
  /\ UNCHANGED <<files, meta, now, last, out, log, cfgVars>>

\* the name is settled; if (await fs.pathExists(checkpointPath))
CreateCheck(p) ==
  LET checkpointName == CheckpointName(run.proc[p].name, now)
      checkpointPath == PathJoin(checkpointDir, CheckpointFile(checkpointName))
  IN
  /\ Running(p, "create", "check")
  /\ IF alreadyExists(files, checkpointPath)
       THEN run' = [run EXCEPT !.proc[p].pc = "done",
                               !.proc[p].target = checkpointName,
                               !.proc[p].outcome = "DuplicateName"]
       ELSE run' = [run EXCEPT !.proc[p].pc = "copy",
                               !.proc[p].target = checkpointName]
  /\ UNCHANGED <<storeVars, cfgVars>>

\* await fs.copy(dbPath, checkpointPath); it throws when the database has
\* gone, into the catch
CreateFile(p) ==
  LET checkpointPath ==
        PathJoin(checkpointDir, CheckpointFile(run.proc[p].target))
  IN
  /\ Running(p, "create", "copy")
  /\ IF pathExists(files, dbPath)
       THEN /\ files' = copy(files, dbPath, checkpointPath)
            /\ Goes(p, "read")
       ELSE /\ UNCHANGED files
            /\ Ends(p, "Failed")
  /\ UNCHANGED <<cpDir, meta, now, last, out, log, cfgVars>>

\* const meta = await fs.readJSON(metaPath).catch(...)
CreateRead(p) ==
  /\ Running(p, "create", "read")
  /\ run' = [run EXCEPT !.proc[p].pc = "write",
                         !.proc[p].cps = readMeta(meta).checkpoints]
  /\ UNCHANGED <<storeVars, cfgVars>>

\* a mistaken record: pushed under the name argument, not the name settled
pushed_unnamed(cps, m, r) ==
  Append(cps, NewRecord(r.name, ISOString(now), r.description))

\* a mistaken write: the index is read again at the moment it is written
pushed_fresh(cps, m, r) ==
  Append(readMeta(m).checkpoints, NewRecord(r.target, ISOString(now), r.description))

\* meta.checkpoints.push(...) on the index as this command read it
pushed(cps, m, r) ==
  Append(cps, NewRecord(r.target, ISOString(now), r.description))

\* await fs.writeJSON(metaPath, meta); spinner.succeed
CreateWrite(p) ==
  /\ Running(p, "create", "write")
  /\ meta' = writeMeta(pushed(run.proc[p].cps, meta, run.proc[p]))
  /\ Written(p, {g \in run.gone : g[1] # run.proc[p].target})
  /\ UNCHANGED <<files, cpDir, now, last, out, log, cfgVars>>

\* checkpoint:delete: the index is read and the name looked up
DeleteRead(p) ==
  LET cps == readMeta(meta).checkpoints
      index == findIndex(cps, run.proc[p].name)
  IN
  /\ Running(p, "delete", "begin")
  /\ IF index = 0 THEN Ends(p, "NotFound")
     ELSE run' = [run EXCEPT !.proc[p].pc = "remove", !.proc[p].cps = cps,
                             !.proc[p].k = index,
                             !.proc[p].target = cps[index].name]
  /\ UNCHANGED <<storeVars, cfgVars>>

\* await fs.remove(checkpointPath).catch(() => {})
DeleteFile(p) ==
  LET r == run.proc[p]
  IN
  /\ Running(p, "delete", "remove")
  /\ files' = remove(files, PathJoin(checkpointDir, r.cps[r.k].file))
  /\ Goes(p, "write")
  /\ UNCHANGED <<cpDir, meta, now, last, out, log, cfgVars>>

\* meta.checkpoints.splice(index, 1); await fs.writeJSON(metaPath, meta)
DeleteWrite(p) ==
  LET r == run.proc[p]
  IN
  /\ Running(p, "delete", "write")
  /\ meta' = writeMeta(splice(r.cps, r.k))
  /\ Written(p, run.gone \cup (Keys(readMeta(meta).checkpoints)
                                 \cap {Key(r.cps[r.k])}))
  /\ UNCHANGED <<files, cpDir, now, last, out, log, cfgVars>>

\* checkpoint:clear: the index is read
ClearRead(p) ==
  LET cps == readMeta(meta).checkpoints
  IN
  /\ Running(p, "clear", "begin")
  /\ IF Len(cps) = 0 THEN Ends(p, "empty")
     ELSE run' = [run EXCEPT !.proc[p].cps = cps, !.proc[p].k = 1,
                             !.proc[p].pc = IF run.proc[p].force
                                              THEN "remove" ELSE "prompt"]
  /\ UNCHANGED <<storeVars, cfgVars>>

\* the prompt is answered
ClearPrompt(p, confirm) ==
  /\ Running(p, "clear", "prompt")
  /\ IF confirm THEN Goes(p, "remove") ELSE Ends(p, "cancelled")
  /\ UNCHANGED <<storeVars, cfgVars>>

\* one turn of the loop: await fs.remove(checkpointPath).catch(() => {})
ClearFile(p) ==
  LET r == run.proc[p]
  IN
  /\ Running(p, "clear", "remove")
  /\ files' = remove(files, PathJoin(checkpointDir, r.cps[r.k].file))
  /\ run' = [run EXCEPT !.proc[p].k = r.k + 1,
                         !.proc[p].pc = IF r.k = Len(r.cps)
                                          THEN "write" ELSE "remove"]
  /\ UNCHANGED <<cpDir, meta, now, last, out, log, cfgVars>>

\* await fs.writeJSON(metaPath, { checkpoints: [] })
ClearWrite(p) ==
  /\ Running(p, "clear", "write")
  /\ meta' = writeMeta(<<>>)
  /\ Written(p, run.gone \cup Keys(readMeta(meta).checkpoints))
  /\ UNCHANGED <<files, cpDir, now, last, out, log, cfgVars>>

\* rollback: the index is read and the record selected
RestoreRead(p) ==
  LET cps == readMeta(meta).checkpoints
      name == run.proc[p].name
  IN
  /\ Running(p, "restore", "begin")
  /\ IF Len(cps) = 0 \/ (name # Omitted /\ findIndex(cps, name) = 0)
       THEN Ends(p, "NotFound")
       ELSE run' = [run EXCEPT !.proc[p].pc = "check", !.proc[p].cps = cps,
                               !.proc[p].target = Selected(cps, name).name]
  /\ UNCHANGED <<storeVars, cfgVars>>

\* if (!await fs.pathExists(checkpointPath))
RestoreCheck(p) ==
  LET checkpointPath ==
        PathJoin(checkpointDir, CheckpointFile(run.proc[p].target))
  IN
  /\ Running(p, "restore", "check")
  /\ IF fileMissing(files, checkpointPath) THEN Ends(p, "MissingFile")
     ELSE run' = [run EXCEPT !.proc[p].pc = "remove", !.proc[p].k = 1]
  /\ UNCHANGED <<storeVars, cfgVars>>

\* one of the four removals
RestoreRemove(p) ==
  LET r == run.proc[p]
  IN
  /\ Running(p, "restore", "remove")
  /\ files' = remove(files, RemovalOrder[r.k])
  /\ run' = [run EXCEPT !.proc[p].k = r.k + 1,
                         !.proc[p].pc = IF r.k = Len(RemovalOrder)
                                          THEN "copy" ELSE "remove"]
  /\ UNCHANGED <<cpDir, meta, now, last, out, log, cfgVars>>

\* await fs.copy(checkpointPath, dbPath); it throws when the file has gone
RestoreFile(p) ==
  LET checkpointPath ==
        PathJoin(checkpointDir, CheckpointFile(run.proc[p].target))
  IN
  /\ Running(p, "restore", "copy")
  /\ IF pathExists(files, checkpointPath)
       THEN /\ files' = copy(files, checkpointPath, dbPath)
            /\ Ends(p, "ok")
       ELSE /\ UNCHANGED files
            /\ Ends(p, "Failed")
  /\ UNCHANGED <<cpDir, meta, now, last, out, log, cfgVars>>

(***************************************************************************)
(* lib/config: blueprint.json.                                             *)
(*                                                                         *)
(* A top-level object is [keys, val]: its keys in insertion order and the  *)
(* value of each. The nested objects preferredVersions and wpsmith are     *)
(* functions from the keys they have; a step is a record of its fields.    *)
(***************************************************************************)
MaxSteps == 3

EmptyFn == [k \in {} |-> ""]
EmptyObject == [keys |-> <<>>, val |-> EmptyFn]

\* { ...target, key: value } : a key the object has keeps its place
SetKey(obj, key, value) ==
  [keys |-> IF key \in DOMAIN obj.val THEN obj.keys ELSE Append(obj.keys, key),
   val  |-> [k \in DOMAIN obj.val \cup {key} |->
               IF k = key THEN value ELSE obj.val[k]]]

\* { ...target, ...source } : source's keys in source's order
RECURSIVE SpreadFrom(_, _, _)
SpreadFrom(target, source, i) ==
  IF i > Len(source.keys) THEN target
  ELSE SpreadFrom(SetKey(target, source.keys[i], source.val[source.keys[i]]),
                  source, i + 1)
Spread(target, source) == SpreadFrom(target, source, 1)

\* obj.key, for a nested object that may be undefined: spreading undefined
\* adds nothing
Nested(obj, key) == IF key \in DOMAIN obj.val THEN obj.val[key] ELSE EmptyFn

\* { ...a, ...b } on nested objects
SpreadNested(a, b) ==
  [k \in DOMAIN a \cup DOMAIN b |-> IF k \in DOMAIN b THEN b[k] ELSE a[k]]

\* an object literal with the given keys, in that order
RECURSIVE ObjectOf(_, _)
ObjectOf(keys, val) ==
  IF keys = <<>> THEN EmptyObject
  ELSE SetKey(ObjectOf(SubSeq(keys, 1, Len(keys) - 1), val),
              keys[Len(keys)], val[keys[Len(keys)]])

BLUEPRINT_SCHEMA == "https://playground.wordpress.net/blueprint-schema.json"

DEFAULT_BLUEPRINT ==
  ObjectOf(<<"$schema", "preferredVersions", "wpsmith">>,
           [k \in {"$schema", "preferredVersions", "wpsmith"} |->
              CASE k = "$schema" -> BLUEPRINT_SCHEMA
                [] k = "preferredVersions" -> [php |-> "8.3", wp |-> "latest"]
                [] k = "wpsmith" -> [port |-> 9400]])

\* fs.readJSON(blueprintPath): throws unless the file is there, readable and JSON
readJSON(file) ==
  IF file.kind = "json" THEN [threw |-> FALSE, value |-> file.doc]
  ELSE [threw |-> TRUE, value |-> EmptyObject]

\* a mistaken load: nothing catches what readJSON throws
loadBlueprint_uncaught(file) ==
  LET r == readJSON(file)
  IN  IF r.threw THEN r
      ELSE [threw |-> FALSE, value |-> Spread(DEFAULT_BLUEPRINT, r.value)]

\* loadBlueprint: { ...DEFAULT_BLUEPRINT, ...blueprint }, or the default
loadBlueprint(file) ==
  LET r == readJSON(file)
  IN  IF r.threw THEN [threw |-> FALSE, value |-> DEFAULT_BLUEPRINT]
      ELSE [threw |-> FALSE, value |-> Spread(DEFAULT_BLUEPRINT, r.value)]

\* a mistaken merge: the two nested objects are replaced like any other key
merged_shallow(existing, blueprint) == Spread(existing, blueprint)

\* a mistaken merge: the steps of the partial are appended to the old ones
merged_concat(existing, blueprint) ==
  LET m == SetKey(
             SetKey(Spread(Spread(EmptyObject, existing), blueprint),
                    "preferredVersions",
                    SpreadNested(Nested(existing, "preferredVersions"),
                                 Nested(blueprint, "preferredVersions"))),
             "wpsmith",
             SpreadNested(Nested(existing, "wpsmith"), Nested(blueprint, "wpsmith")))
  IN  IF "steps" \in DOMAIN existing.val /\ "steps" \in DOMAIN blueprint.val
        THEN SetKey(m, "steps", existing.val["steps"] \o blueprint.val["steps"])
        ELSE m

\* saveBlueprint's merged
merged(existing, blueprint) ==
  SetKey(
    SetKey(Spread(Spread(EmptyObject, existing), blueprint),
           "preferredVersions",
           SpreadNested(Nested(existing, "preferredVersions"),
                        Nested(blueprint, "preferredVersions"))),
    "wpsmith",
    SpreadNested(Nested(existing, "wpsmith"), Nested(blueprint, "wpsmith")))

\* a mistaken order: $schema is taken out of merged and not put back
ordered_rest(m) ==
  ObjectOf(SelectSeq(m.keys, LAMBDA k : k # "$schema"), m.val)

\* saveBlueprint's ordered: { $schema: BLUEPRINT_SCHEMA, ...merged }
ordered(m) == Spread(SetKey(EmptyObject, "$schema", BLUEPRINT_SCHEMA), m)

\* a mistaken save: a document that cannot be read counts as the empty
\* object, not as the default document
saveBlueprint_bare(file, blueprint) ==
  LET r == readJSON(file)
      existing == IF r.threw THEN EmptyObject
                  ELSE Spread(DEFAULT_BLUEPRINT, r.value)
  IN  [kind |-> "json", doc |-> ordered(merged(existing, blueprint))]

\* what saveBlueprint writes
saveBlueprint(file, blueprint) ==
  LET existing == loadBlueprint(file).value
  IN  [kind |-> "json", doc |-> ordered(merged(existing, blueprint))]

\* steps
PluginStep(slug) ==
  [step |-> "installPlugin",
   pluginData |-> [resource |-> "wordpress.org/plugins", slug |-> slug]]
UrlPluginStep ==
  [step |-> "installPlugin",
   pluginData |-> [resource |-> "url", url |-> "https://example.org/p.zip"]]
BarePluginStep == [step |-> "installPlugin"]
OptionsStep == [step |-> "setSiteOptions", options |-> [blogname |-> "Demo"]]

\* a mistaken projection: the last identifier gets no step
createPluginSteps_short(plugins) ==
  [i \in 1..(Len(plugins) - 1) |-> PluginStep(plugins[i])]

\* createPluginSteps: plugins.map(slug => ({ step, pluginData }))
createPluginSteps(plugins) ==
  [i \in 1..Len(plugins) |-> PluginStep(plugins[i])]

\* step.step === 'installPlugin' && 'pluginData' in step
isInstallPlugin(step) ==
  step.step = "installPlugin" /\ "pluginData" \in DOMAIN step

\* !!slug, for step.pluginData.slug
hasSlug(step) ==
  "slug" \in DOMAIN step.pluginData /\ step.pluginData.slug # ""

\* a mistaken projection: the slugs come out newest first
PluginSlugs_reversed(steps) ==
  LET picked == SelectSeq(SelectSeq(steps, isInstallPlugin), hasSlug)
  IN  [i \in 1..Len(picked) |-> picked[Len(picked) + 1 - i].pluginData.slug]

\* .filter(...).map(step => step.pluginData.slug).filter(slug => !!slug)
PluginSlugs(steps) ==
  LET picked == SelectSeq(SelectSeq(steps, isInstallPlugin), hasSlug)
  IN  [i \in 1..Len(picked) |-> picked[i].pluginData.slug]

\* getPluginsFromBlueprint
getPluginsFromBlueprint(blueprint) ==
  IF "steps" \notin DOMAIN blueprint.val THEN <<>>
  ELSE PluginSlugs(blueprint.val["steps"])

\* what a call leaves in `call`
NoObject == EmptyObject
\* a call: its argument, what it returned, whether it threw, whether
\* loadBlueprint's catch was entered on its way, and the plugins new was
\* given
Called(op, partial, ret, threw, plugins) ==
  [op |-> op, partial |-> partial, ret |-> ret, threw |-> threw,
   plugins |-> plugins, caught |-> FALSE, given |-> <<>>]
NoCall == Called("none", NoObject, NoObject, FALSE, <<>>)

Load ==
  LET r == loadBlueprint(blueprintFile)
  IN
  /\ call' = [Called("load", NoObject, r.value, r.threw, <<>>)
                EXCEPT !.caught = readJSON(blueprintFile).threw]
  /\ UNCHANGED blueprintFile
  /\ UNCHANGED <<storeVars, run, serve>>

Save(blueprint) ==
  /\ blueprintFile' = saveBlueprint(blueprintFile, blueprint)
  /\ call' = [Called("save", blueprint, NoObject, FALSE, <<>>)
                EXCEPT !.caught = readJSON(blueprintFile).threw]
  /\ UNCHANGED <<storeVars, run, serve>>

\* new: "Create blueprint.json", with the versions and the port of its
\* defaults and the steps of the plugins it was given
NewBlueprint(plugins) ==
  LET blueprint ==
        ObjectOf(<<"$schema", "preferredVersions", "steps", "wpsmith">>,
                 [k \in {"$schema", "preferredVersions", "steps", "wpsmith"} |->
                    CASE k = "$schema" -> BLUEPRINT_SCHEMA
                      [] k = "preferredVersions" -> [php |-> "8.3", wp |-> "latest"]
                      [] k = "steps" -> createPluginSteps(plugins)
                      [] k = "wpsmith" -> [port |-> 9400]])
  IN
  /\ blueprintFile' = saveBlueprint(blueprintFile, blueprint)
  /\ call' = [Called("new", blueprint, NoObject, FALSE, <<>>)
                EXCEPT !.given = plugins]
  /\ UNCHANGED <<storeVars, run, serve>>

GetPlugins ==
  LET r == loadBlueprint(blueprintFile)
  IN
  /\ call' = [Called("plugins", NoObject, r.value, r.threw,
                     getPluginsFromBlueprint(r.value))
                EXCEPT !.caught = readJSON(blueprintFile).threw]
  /\ UNCHANGED blueprintFile
  /\ UNCHANGED <<storeVars, run, serve>>

(***************************************************************************)
(* serve: the values of its expressions. A JavaScript value is undefined,  *)
(* a number, NaN or a string.                                              *)
(***************************************************************************)
Undefined == [type |-> "undefined", num |-> 0, str |-> ""]
Num(n) == [type |-> "number", num |-> n, str |-> ""]
NaN == [type |-> "NaN", num |-> 0, str |-> ""]
Str(s) == [type |-> "string", num |-> 0, str |-> s]

\* String(v)
String(v) ==
  CASE v.type = "undefined" -> Str("undefined")
    [] v.type = "number" -> Str(ToString(v.num))
    [] v.type = "NaN" -> Str("NaN")
    [] OTHER -> v

\* what || takes for true
Truthy(v) ==
  CASE v.type = "string" -> v.str # ""
    [] v.type = "number" -> v.num # 0
    [] OTHER -> FALSE

\* a || b
Or(a, b) == IF Truthy(a) THEN a ELSE b

\* a decimal digit, and its value
IsDigit(c) == \E d \in 1..10 : SubSeq("0123456789", d, d) = c
DigitValue(c) == (CHOOSE d \in 1..10 : SubSeq("0123456789", d, d) = c) - 1

\* the number the leading decimal digits of s (from position i on) spell
RECURSIVE ParseDigits(_, _, _)
ParseDigits(s, i, acc) ==
  IF i > Len(s) \/ ~IsDigit(SubSeq(s, i, i)) THEN acc
  ELSE ParseDigits(s, i + 1, acc * 10 + DigitValue(SubSeq(s, i, i)))

\* parseInt(v), for strings without leading blanks, sign or 0x: the leading
\* digits, NaN when there is none
parseInt(v) ==
  LET s == String(v).str
  IN  IF Len(s) = 0 \/ ~IsDigit(SubSeq(s, 1, 1)) THEN NaN
      ELSE Num(ParseDigits(s, 1, 0))

\* blueprint.wpsmith?.port
PortOf(blueprint) ==
  LET w == Nested(blueprint, "wpsmith")
  IN  IF "port" \in DOMAIN w THEN Num(w["port"]) ELSE Undefined

\* blueprint.preferredVersions?.php and ?.wp
VersionOf(blueprint, k) ==
  LET v == Nested(blueprint, "preferredVersions")
  IN  IF k \in DOMAIN v THEN Str(v[k]) ELSE Undefined

\* parseInt(options.port || String(blueprint.wpsmith?.port) || '9400')
requestedPort(options, blueprint) ==
  parseInt(Or(Or(options.port, String(PortOf(blueprint))), Str("9400")))

\* s.includes(sub)
Includes(s, sub) ==
  \E i \in 1..(Len(s) - Len(sub) + 1) : SubSeq(s, i, i + Len(sub) - 1) = sub

\* s.toLowerCase(), for the letters of the English alphabet
LowerChar(c) ==
  LET upper == "ABCDEFGHIJKLMNOPQRSTUVWXYZ"
      lower == "abcdefghijklmnopqrstuvwxyz"
  IN  IF \E i \in 1..26 : SubSeq(upper, i, i) = c
        THEN LET i == CHOOSE j \in 1..26 : SubSeq(upper, j, j) = c
             IN  SubSeq(lower, i, i)
        ELSE c
RECURSIVE toLowerCase(_)
toLowerCase(s) ==
  IF Len(s) = 0 THEN ""
  ELSE LowerChar(SubSeq(s, 1, 1)) \o toLowerCase(SubSeq(s, 2, Len(s)))

\* s.trim() is the empty string
Blank(s) == \A i \in 1..Len(s) : SubSeq(s, i, i) \in {" ", "\n", "\t"}
(***************************************************************************)
(* serve: the command and the handlers of its child's events.              *)
(***************************************************************************)
\* the most stdout and stderr chunks a run of the model receives
MaxEvents == 3

\* a close code that is null (the child was ended by a signal)
Null == [type |-> "null", num |-> 0, str |-> ""]

\* serve: its options and locals, the spinner, the banners printed and
\* browsers opened, what it wrote to its stdout and stderr, the code its
\* child closed with and its own exit status; history: the chunks received
\* and whether one of stdout held Ready!
NoServe ==
  [pc |-> "idle",
   options |-> [port |-> Undefined, php |-> Undefined, wp |-> Undefined,
                open |-> TRUE],
   requestedPort |-> Undefined, port |-> Undefined,
   php |-> Undefined, wp |-> Undefined, open |-> TRUE, inUse |-> FALSE,
   serverStarted |-> FALSE, spinner |-> "none", banners |-> 0, opened |-> 0,
   stdout |-> <<>>, stderr |-> <<>>, stopping |-> FALSE, code |-> Undefined,
   status |-> 0, events |-> 0, ready |-> FALSE]

\* the port no server listens on that the operating system hands out
EphemeralPort == 49152

\* detectPort(requestedPort): the port itself when it is free, else another
detectPort(requested, busy) ==
  IF requested.type # "number" THEN Num(EphemeralPort)
  ELSE IF busy THEN Num(requested.num + 1)
  ELSE requested

\* the action up to spawn: the document is loaded, port, php and wp are
\* worked out, the child is started and the handlers are attached
ServeStart(options, busy) ==
  LET blueprint == loadBlueprint(blueprintFile).value
      requested == requestedPort(options, blueprint)
      php == Or(Or(options.php, VersionOf(blueprint, "php")), Str("8.3"))
      wp == Or(options.wp, VersionOf(blueprint, "wp"))
      port == detectPort(requested, busy)
  IN
  /\ serve.pc = "idle"
  /\ serve' = [serve EXCEPT !.pc = "running",
                            !.options = options,
                            !.requestedPort = requested,
                            !.port = port,
                            !.php = php,
                            !.wp = wp,
                            !.open = options.open,
                            !.inUse = (requested.type # "number"
                                         \/ port # requested),
                            !.spinner = "Starting WordPress Playground..."]
  /\ UNCHANGED <<storeVars, run, blueprintFile, call>>

\* a mistaken banner: nothing remembers that it was shown
showServerInfo_again(sv) ==
  [sv EXCEPT !.spinner = "stopped",
             !.banners = @ + 1,
             !.opened = IF sv.open THEN @ + 1 ELSE @]

\* showServerInfo: once only; the spinner stops, the banner is printed and
\* the browser is opened unless --no-open was given
showServerInfo(sv) ==
  IF sv.serverStarted THEN sv
  ELSE [sv EXCEPT !.serverStarted = TRUE,
                  !.spinner = "stopped",
                  !.banners = @ + 1,
                  !.opened = IF sv.open THEN @ + 1 ELSE @]

isStartupNoise(output) ==
  \/ Includes(output, "Ready!")
  \/ Includes(output, "WordPress Playground CLI")
  \/ Includes(output, "PHP 8.")
  \/ Includes(output, "Extensions")
  \/ Includes(output, "Mount ")
  \/ Includes(output, "127.0.0.1")

\* child.stdout.on('data')
Stdout(output) ==
  LET shown == IF ~serve.serverStarted /\ Includes(output, "Ready!")
                 THEN showServerInfo(serve) ELSE serve
      written == IF shown.serverStarted /\ ~isStartupNoise(output)
                      /\ ~Blank(output)
                   THEN Append(shown.stdout, output) ELSE shown.stdout
  IN
  /\ serve.pc = "running"
  /\ serve.events < MaxEvents
  /\ serve' = [shown EXCEPT !.stdout = written,
                            !.events = @ + 1,
                            !.ready = @ \/ Includes(output, "Ready!")]
  /\ UNCHANGED <<storeVars, run, blueprintFile, call>>

\* child.stderr.on('data')
Stderr(output) ==
  LET text == IF ~serve.serverStarted
                   /\ (Includes(output, "npm") \/ Includes(output, "install"))
                THEN "Installing WordPress Playground CLI..."
                ELSE serve.spinner
      written == IF Includes(toLowerCase(output), "error")
                      /\ ~Includes(output, "EADDRINUSE")
                   THEN Append(serve.stderr, output) ELSE serve.stderr
  IN
  /\ serve.pc = "running"
  /\ serve.events < MaxEvents
  /\ serve' = [serve EXCEPT !.spinner = text,
                            !.stderr = written,
                            !.events = @ + 1]
  /\ UNCHANGED <<storeVars, run, blueprintFile, call>>

\* child.on('close'): process.exit(1) when the server never started and the
\* code is not 0; otherwise the action's promise resolves and the command
\* ends
closed(sv, code) ==
  IF ~sv.serverStarted /\ code # Num(0)
    THEN [sv EXCEPT !.pc = "exited", !.code = code, !.spinner = "failed",
                    !.status = 1]
    ELSE [sv EXCEPT !.pc = "exited", !.code = code, !.status = 0]

Close(code) ==
  /\ serve.pc = "running"
  /\ serve' = closed(serve, code)
  /\ UNCHANGED <<storeVars, run, blueprintFile, call>>

\* child.on('error'): npx could not be started
ChildError(message) ==
  /\ serve.pc = "running"
  /\ serve' = [serve EXCEPT !.pc = "exited",
                            !.spinner = IF Includes(message, "ENOENT")
                                          THEN "failed: npx not found"
                                          ELSE "failed: " \o message,
                            !.status = 1]
  /\ UNCHANGED <<storeVars, run, blueprintFile, call>>

\* process.on('SIGINT'): the child is told to stop
Sigint ==
  /\ serve.pc = "running"
  /\ ~serve.stopping
  /\ serve' = [serve EXCEPT !.stopping = TRUE]
  /\ UNCHANGED <<storeVars, run, blueprintFile, call>>
(***************************************************************************)
(* The documents the configuration is tried on.                            *)
(***************************************************************************)
TopKeys == {"$schema", "landingPage", "preferredVersions", "steps", "wpsmith"}

\* every object with the given choice of value per key (a key with no
\* choice taken is absent), its keys in the given order
RECURSIVE ObjectsUpTo(_, _, _)
ObjectsUpTo(order, choices, i) ==
  IF i = 0 THEN {EmptyObject}
  ELSE LET before == ObjectsUpTo(order, choices, i - 1)
       IN  before \cup {SetKey(o, order[i], v) :
                          o \in before, v \in choices[order[i]]}
ObjectsOver(order, choices) == ObjectsUpTo(order, choices, Len(order))

CanonicalOrder == <<"$schema", "landingPage", "preferredVersions", "steps", "wpsmith">>
ReverseOrder == <<"wpsmith", "steps", "preferredVersions", "landingPage", "$schema">>

\* blueprint.json as a user may have written it
DiskChoices ==
  [k \in TopKeys |->
     CASE k = "$schema" -> {BLUEPRINT_SCHEMA}
       [] k = "landingPage" -> {"/wp-admin/"}
       [] k = "preferredVersions" ->
            {EmptyFn, [php |-> "8.1"], [wp |-> "6.4"], [php |-> "8.1", wp |-> "6.4"]}
       [] k = "steps" -> {<<PluginStep("a"), OptionsStep>>}
       [] k = "wpsmith" -> {EmptyFn, [port |-> 8080]}]

DiskObjects ==
  ObjectsOver(CanonicalOrder, DiskChoices) \cup ObjectsOver(ReverseOrder, DiskChoices)

\* the partial documents saveBlueprint is given
PartialChoices ==
  [k \in TopKeys |->
     CASE k = "$schema" -> {"https://example.org/other-schema.json"}
       [] k = "landingPage" -> {}
       [] k = "preferredVersions" -> {EmptyFn, [wp |-> "6.7"], [php |-> "8.2", wp |-> "6.7"]}
       [] k = "steps" -> {<<>>, <<PluginStep("b")>>}
       [] k = "wpsmith" -> {[port |-> 9000]}]

PartialObjects == ObjectsOver(CanonicalOrder, PartialChoices)

NotJson == {[kind |-> k, doc |-> EmptyObject] :
              k \in {"missing", "unreadable", "malformed"}}

StoreIdle ==
  /\ files = [p \in {dbPath} |-> ""]
  /\ cpDir = FALSE
  /\ meta = MetaMissing
  /\ now = 1
  /\ last = Result("none", Omitted, Omitted, "ok")
  /\ out = <<>>
  /\ log = <<>>
  /\ run = NoRuns

ConfigInit ==
  /\ StoreIdle
  /\ blueprintFile \in NotJson \cup {[kind |-> "json", doc |-> o] : o \in DiskObjects}
  /\ call = NoCall
  /\ serve = NoServe

ConfigNext ==
  \/ Load
  \/ \E blueprint \in PartialObjects : Save(blueprint)

ConfigSpec == ConfigInit /\ [][ConfigNext]_vars

\* what serve is run with: --port or not, --no-open or not
ServeOptions ==
  {[port |-> p, php |-> Undefined, wp |-> Undefined, open |-> o] :
     p \in {Undefined, Str("3000")}, o \in BOOLEAN}

\* what the Playground CLI prints
StdoutChunks ==
  {"Ready! WordPress is running on http://127.0.0.1:9400",
   "WordPress Playground CLI", "Rea", " \n"}
StderrChunks ==
  {"npm warn exec", "Error: listen EADDRINUSE", "PHP Fatal error", "notice"}
CloseCodes == {Num(0), Num(1), Null}
ErrorMessages == {"spawn npx ENOENT", "spawn EACCES"}

\* serve is tried on no document and on every choice of preferredVersions
\* and wpsmith
ServeInit ==
  /\ StoreIdle
  /\ blueprintFile \in
       NotJson \cup {[kind |-> "json", doc |-> o] :
                       o \in ObjectsOver(<<"preferredVersions", "wpsmith">>,
                                         DiskChoices)}
  /\ call = NoCall
  /\ serve = NoServe

ServeNext ==
  \/ \E options \in ServeOptions, busy \in BOOLEAN : ServeStart(options, busy)
  \/ \E output \in StdoutChunks : Stdout(output)
  \/ \E output \in StderrChunks : Stderr(output)
  \/ \E code \in CloseCodes : Close(code)
  \/ \E message \in ErrorMessages : ChildError(message)
  \/ Sigint

ServeSpec == ServeInit /\ [][ServeNext]_vars

\* the step sequences getPluginsFromBlueprint is tried on
StepValues ==
  {PluginStep("a"), PluginStep("b"), PluginStep(""), UrlPluginStep,
   BarePluginStep, OptionsStep}
StepSeqs == UNION {[1..n -> StepValues] : n \in 0..MaxSteps}

PluginInit ==
  /\ StoreIdle
  /\ blueprintFile \in
       {[kind |-> "missing", doc |-> EmptyObject],
        [kind |-> "json", doc |-> EmptyObject]}
       \cup {[kind |-> "json", doc |-> SetKey(EmptyObject, "steps", s)] :
               s \in StepSeqs}
  /\ call = NoCall
  /\ serve = NoServe

\* the plugins new is given: names of plugins, one of them twice, and the
\* empty string (--plugins "")
PluginSeqs == UNION {[1..n -> {"a", "b", ""}] : n \in 0..MaxSteps}

PluginNext ==
  \/ GetPlugins
  \/ \E plugins \in PluginSeqs : NewBlueprint(plugins)

PluginSpec == PluginInit /\ [][PluginNext]_vars

(***************************************************************************)
(* The project as wpsmith new leaves it: WordPress installed, no           *)
(* checkpoint taken.                                                       *)
(***************************************************************************)
Init ==
  /\ \E c \in Contents : files = [p \in {dbPath} |-> c]
  /\ cpDir = FALSE
  /\ meta = MetaMissing
  /\ now = 1
  /\ last = Result("none", Omitted, Omitted, "ok")
  /\ out = <<>>
  /\ log = <<>>
  /\ blueprintFile = [kind |-> "missing", doc |-> EmptyObject]
  /\ call = NoCall
  /\ run = NoRuns
  /\ serve = NoServe

Next ==
  \/ \E i \in CreateInputs, elapsed \in {0, 1} :
       Create(i.name, i.description, elapsed)
  \/ List
  \/ \E name \in ArgNames \cup {Omitted} : Restore(name)
  \/ \E name \in ArgNames : Delete(name)
  \/ \E force \in BOOLEAN, confirm \in BOOLEAN : Clear(force, confirm)
  \/ \E c \in Contents, sc \in SidecarSets : ServerWrite(c, sc)
  \/ \E installed \in BOOLEAN : DbFresh(installed, "")
  \/ Tick

Spec == Init /\ [][Next]_vars

\* the same commands, each of which may be killed on its way, in a project
\* whose index is let grow to MaxRecords records. The clock stands still:
\* the names are "a" and the one generated for that instant.
MaxRecords == 2

CrashNames == {"a", AutoName(1)}
CrashInputs == {i \in CreateInputs : i.name \in {"a", Omitted}}

CrashNext ==
  \/ \E i \in CrashInputs :
       /\ Len(readMeta(meta).checkpoints) < MaxRecords
       /\ Create(i.name, i.description, 0)
  \/ List
  \/ \E name \in CrashNames \cup {Omitted} : Restore(name)
  \/ \E name \in CrashNames : Delete(name)
  \/ \E force \in BOOLEAN, confirm \in BOOLEAN : Clear(force, confirm)
  \/ \E c \in Contents, sc \in SidecarSets : ServerWrite(c, sc)
  \/ \E name \in {"a", Omitted}, point \in CreatePoints :
       CreateCrash(name, point)
  \/ \E name \in CrashNames, point \in DeletePoints : DeleteCrash(name, point)
  \/ \E k \in 1..MaxRecords, point \in ClearPoints : ClearCrash(k, point)
  \/ \E name \in CrashNames \cup {Omitted}, k \in 1..Len(RemovalOrder),
        point \in RestorePoints :
       RestoreCrash(name, k, point)

CrashSpec == Init /\ [][CrashNext]_vars

\* two processes, MaxRuns commands in all
ConcNext ==
  \E p \in Procs :
    \/ \E i \in CrashInputs : Start(p, "create", i.name, i.description, FALSE)
    \/ \E name \in CrashNames : Start(p, "delete", name, NoDescription, FALSE)
    \/ \E force \in BOOLEAN : Start(p, "clear", Omitted, NoDescription, force)
    \/ \E name \in CrashNames \cup {Omitted} :
         Start(p, "restore", name, NoDescription, FALSE)
    \/ CreateBegin(p) \/ CreateEnsure(p) \/ CreateCheck(p)
    \/ CreateFile(p) \/ CreateRead(p) \/ CreateWrite(p)
    \/ DeleteRead(p) \/ DeleteFile(p) \/ DeleteWrite(p)
    \/ ClearRead(p) \/ (\E confirm \in BOOLEAN : ClearPrompt(p, confirm))
    \/ ClearFile(p) \/ ClearWrite(p)
    \/ RestoreRead(p) \/ RestoreCheck(p) \/ RestoreRemove(p) \/ RestoreFile(p)

ConcSpec == Init /\ [][ConcNext]_vars

(***************************************************************************)
(* Properties of the checkpoint commands.                                  *)
(***************************************************************************)
Index == readMeta(meta).checkpoints
IndexNames(cps) == {cps[i].name : i \in 1..Len(cps)}
LogNames == {log[i].name : i \in 1..Len(log)}
CheckpointPath(name) == PathJoin(checkpointDir, CheckpointFile(name))
Without(cps, name) == SelectSeq(cps, LAMBDA r : r.name # name)

\* C1: round trip. After a rollback to name x succeeded, the live database
\* holds exactly what it held when the checkpoint named x was taken (the
\* one snapshot of that name taken and not deleted since).
C1_RoundTrip ==
  (last.op = "restore" /\ last.outcome = "ok" /\ last.name # Omitted) =>
    /\ pathExists(files, dbPath)
    /\ \E i \in 1..Len(log) :
         /\ log[i].name = last.name
         /\ log[i].content = files[dbPath]
         /\ \A j \in 1..Len(log) : log[j].name = last.name => j = i

\* the zero-byte database came back over a database that held something else
C1_Witness ==
  /\ last.op = "restore" /\ last.outcome = "ok" /\ last.name = "a"
  /\ files[dbPath] = ""
  /\ last.replaced = {"A"}
  /\ Len(log) >= 2

\* C2: latest wins. After a rollback without a name succeeded, the live
\* database holds the content of the most recently taken snapshot that has
\* not been deleted, which is the last record of the index.
C2_LatestWins ==
  (last.op = "restore" /\ last.outcome = "ok" /\ last.name = Omitted) =>
    /\ Len(log) > 0
    /\ pathExists(files, dbPath)
    /\ files[dbPath] = log[Len(log)].content
    /\ last.target = log[Len(log)].name
    /\ Index[Len(Index)].name = log[Len(log)].name

\* three snapshots A, B, C; C came back, B holds something else
C2_Witness ==
  /\ last.op = "restore" /\ last.outcome = "ok" /\ last.name = Omitted
  /\ Len(log) = 3
  /\ log[2].content # log[3].content
  /\ last.replaced = {log[2].content}

\* C3: duplicate rejection. A checkpoint whose name is that of a snapshot
\* taken and not deleted fails, with DuplicateName when there is a live
\* database and with NoLiveData when there is none (that check comes
\* first); it writes no file and no index, and the index holds exactly one
\* record of that name.
C3_DuplicateRejected ==
  [][(last'.op = "create" /\ last'.target \in LogNames) =>
       /\ last'.outcome =
            IF pathExists(files, dbPath) THEN "DuplicateName" ELSE "NoLiveData"
       /\ files' = files
       /\ meta' = meta
       /\ Cardinality({i \in 1..Len(Index') : Index'[i].name = last'.target}) = 1
    ]_vars

\* C3 as stated: the second checkpoint of a name always fails with
\* DuplicateName
C3_AsStated ==
  [][(last'.op = "create" /\ last'.target \in LogNames) =>
       /\ last'.outcome = "DuplicateName"
       /\ files' = files
       /\ meta' = meta
       /\ Cardinality({i \in 1..Len(Index') : Index'[i].name = last'.target}) = 1
    ]_vars

\* the second checkpoint "a" was refused while the database had changed
C3_Witness ==
  /\ last.op = "create" /\ last.outcome = "DuplicateName" /\ last.target = "a"
  /\ \E i \in 1..Len(log) : log[i].name = "a" /\ {log[i].content} # LiveContent(files)
  /\ files[CheckpointPath("a")] # files[dbPath]

\* C4: delete is isolated. A delete of x that succeeds removes the record
\* named x and its file and nothing else: the other records keep their
\* order and fields, the other files their content; and a rollback to a name
\* that no record has fails with NotFound and touches nothing.
C4_DeleteIsolated ==
  [][/\ (last'.op = "delete" /\ last'.outcome = "ok") =>
          /\ last'.name \in IndexNames(Index)
          /\ Index' = Without(Index, last'.name)
          /\ Len(Index') = Len(Index) - 1
          /\ files' = remove(files, CheckpointPath(last'.name))
          /\ pathExists(files, CheckpointPath(last'.name))
     /\ (last'.op = "restore" /\ last'.name # Omitted
           /\ last'.name \notin IndexNames(Index)) =>
          /\ last'.outcome = "NotFound"
          /\ files' = files
          /\ meta' = meta
    ]_vars

\* a delete left two records behind
C4_Witness ==
  /\ last.op = "delete" /\ last.outcome = "ok"
  /\ Len(Index) = 2
  /\ Index[1].created # Index[2].created
  /\ \A i \in 1..2 : pathExists(files, PathJoin(checkpointDir, Index[i].file))

\* C5: clear is total. A clear that is forced or confirmed, on an index with
\* records, leaves an empty index and none of the records' files; with an
\* empty index list shows nothing and rollback fails.
C5_ClearTotal ==
  [][/\ (last'.op = "clear" /\ Len(Index) > 0
           /\ (last'.force \/ last'.confirm)) =>
          /\ last'.outcome = "ok"
          /\ meta'.kind = "json"
          /\ Index' = <<>>
          /\ \A i \in 1..Len(Index) :
               ~pathExists(files', PathJoin(checkpointDir, Index[i].file))
     /\ (last'.op = "list" /\ Index = <<>>) => out' = <<>>
     /\ (last'.op = "restore" /\ Index = <<>>) =>
          /\ last'.outcome = "NotFound"
          /\ files' = files
    ]_vars

\* a clear removed three snapshots
C5_Witness ==
  /\ last.op = "clear" /\ last.outcome = "ok"
  /\ last.count = 3
  /\ Index = <<>>
  /\ DOMAIN files \subseteq {dbPath} \cup SidecarPaths

\* C10: without a database, checkpoint fails with NoLiveData and writes
\* nothing: no directory, no snapshot file, no index.
C10_NoLiveData ==
  [][(last'.op = "create" /\ ~pathExists(files, dbPath)) =>
       /\ last'.outcome = "NoLiveData"
       /\ files' = files
       /\ cpDir' = cpDir
       /\ meta' = meta
    ]_vars

\* the checkpoint was refused in a project that has no checkpoints directory
C10_Witness ==
  /\ last.op = "create" /\ last.outcome = "NoLiveData"
  /\ ~cpDir
  /\ ~pathExists(files, dbPath)
  /\ meta = MetaMissing

(***************************************************************************)
(* Properties of the checkpoint commands when a command may be killed.     *)
(***************************************************************************)
RecordPath(cp) == PathJoin(checkpointDir, cp.file)

\* the files of the snapshot directory
SnapshotFiles(fs) == DOMAIN fs \ ({dbPath} \cup SidecarPaths)

\* rollback of `name` finds no record to restore
Unresolved(cps, name) ==
  \/ Len(cps) = 0
  \/ name # Omitted /\ name \notin IndexNames(cps)

\* the record rollback of `name` resolves to has no file
Fileless(fs, cps, name) ==
  /\ ~Unresolved(cps, name)
  /\ IF name = Omitted
       THEN ~pathExists(fs, RecordPath(cps[Len(cps)]))
       ELSE \E i \in 1..Len(cps) :
              cps[i].name = name /\ ~pathExists(fs, RecordPath(cps[i]))

\* C11: a rollback that cannot resolve to an existing file fails and changes
\* nothing. It ends NotFound when the index is empty or no record has the
\* given name, MissingFile when the record it selects has no file; the
\* database, its sidecars, the index and every snapshot file are as before.
C11_RestoreFailsClean ==
  [][(last'.op = "restore" /\ last'.at = "end") =>
       /\ Unresolved(Index, last'.name) =>
            /\ last'.outcome = "NotFound"
            /\ files' = files /\ meta' = meta /\ cpDir' = cpDir
       /\ Fileless(files, Index, last'.name) =>
            /\ last'.outcome = "MissingFile"
            /\ files' = files /\ meta' = meta /\ cpDir' = cpDir
       /\ last'.outcome \in {"NotFound", "MissingFile"} <=>
            (Unresolved(Index, last'.name) \/ Fileless(files, Index, last'.name))
    ]_vars

\* a rollback ended MissingFile beside a database in use and another
\* record whose file is there
C11_Witness ==
  /\ last.op = "restore" /\ last.outcome = "MissingFile" /\ last.name = "a"
  /\ pathExists(files, dbPath) /\ files[dbPath] = "A"
  /\ pathExists(files, dbPath \o "-wal")
  /\ Len(Index) = 2
  /\ \E i \in 1..2 : pathExists(files, RecordPath(Index[i]))

\* C12: after a rollback that succeeded the database has the content of
\* the selected record's snapshot file and none of -journal, -wal, -shm
\* exists, whatever sidecars there were; the snapshot files are untouched.
\* The removals come before the copy: a rollback killed among its removals
\* leaves no database and exactly the files it had not yet removed, and one
\* killed in its copy leaves no sidecar.
C12_RestoreReplaces ==
  [][last'.op = "restore" =>
       LET src == CheckpointPath(last'.target)
       IN  /\ last'.outcome = "ok" =>
                /\ pathExists(files, src)
                /\ files' = [p \in (DOMAIN files \ SidecarPaths) \cup {dbPath} |->
                               IF p = dbPath THEN files[src] ELSE files[p]]
           /\ last'.at = "removing" =>
                /\ ~pathExists(files', dbPath)
                /\ files' = [p \in DOMAIN files \
                                     {RemovalOrder[i] : i \in 1..last'.count} |->
                               files[p]]
           /\ last'.at = "copying" =>
                /\ DOMAIN files' \cap SidecarPaths = {}
                /\ SnapshotFiles(files') = SnapshotFiles(files)
    ]_vars

\* the zero-byte snapshot came back over a database in write-ahead mode:
\* the database, its -wal and its -shm were removed
C12_Witness ==
  /\ last.op = "restore" /\ last.outcome = "ok"
  /\ last.replaced = {"A"}
  /\ last.count = 3
  /\ files[dbPath] = ""
  /\ DOMAIN files \cap SidecarPaths = {}

\* the sequence without its i-th element
RemoveAt(cps, i) == SubSeq(cps, 1, i - 1) \o SubSeq(cps, i + 1, Len(cps))

\* C13: a delete of a name no record has fails with NotFound and leaves the
\* index and the files as they were; a delete of a name some record has
\* succeeds whether or not the record's file is still there: the file, if
\* any, is gone, the first record of that name is out of the index, and the
\* index is written.
C13_DeleteLenient ==
  [][(last'.op = "delete" /\ last'.at = "end") =>
       IF last'.name \notin IndexNames(Index)
         THEN /\ last'.outcome = "NotFound"
              /\ files' = files /\ meta' = meta
         ELSE /\ last'.outcome = "ok"
              /\ meta'.kind = "json"
              /\ \E i \in 1..Len(Index) :
                   /\ Index[i].name = last'.name
                   /\ \A j \in 1..(i - 1) : Index[j].name # last'.name
                   /\ Index' = RemoveAt(Index, i)
                   /\ ~pathExists(files', RecordPath(Index[i]))
                   /\ \A p \in DOMAIN files \ {RecordPath(Index[i])} :
                        pathExists(files', p) /\ files'[p] = files[p]
                   /\ DOMAIN files' \subseteq DOMAIN files
    ]_vars

\* a delete took a record that had no file out of an index of two
C13_Witness ==
  /\ last.op = "delete" /\ last.outcome = "ok" /\ last.count = 0
  /\ meta.kind = "json"
  /\ Len(Index) = 1
  /\ pathExists(files, RecordPath(Index[1]))

\* C14: record names are unique within the index in every reachable state,
\* also when commands have been killed between their file step and their
\* index write.
C14_UniqueNames ==
  \A i \in 1..Len(Index) : \A j \in 1..Len(Index) :
    Index[i].name = Index[j].name => i = j

\* C17: checkpoint:list prints one row per record of the index, the last
\* record first and the first last; of an index that is missing or is not
\* JSON it prints no row and does not fail; it changes no file, no directory
\* and no index.
C17_ListNewestFirst ==
  [][last'.op = "list" =>
       /\ last'.outcome = "ok"
       /\ files' = files /\ meta' = meta /\ cpDir' = cpDir
       /\ meta.kind # "json" => out' = <<>>
       /\ Len(out') = Len(Index)
       /\ \A i \in 1..Len(Index) :
            /\ out'[i].name = Index[Len(Index) + 1 - i].name
            /\ out'[i].created = Index[Len(Index) + 1 - i].created
    ]_vars

\* two records listed, the later one first, its file gone
C17_Witness ==
  /\ last.op = "list"
  /\ Len(Index) = 2
  /\ Index[1].name # Index[2].name
  /\ Len(out) = 2
  /\ out[1].name = Index[2].name /\ ~out[1].hasSize
  /\ out[2].name = Index[1].name /\ out[2].hasSize

\* the records a delete or a clear is to remove
Targeted(cps, result) ==
  {i \in 1..Len(cps) : result.op = "clear" \/ cps[i].name = result.name}

CreateCutShort ==
  last.op = "create" /\ last.outcome = "Interrupted"
    /\ last.at \in {"copied", "writing"}

\* C21: of a checkpoint killed after the copy and before the index write,
\* the snapshot file exists and no record of the index has its name; the
\* next command finds the name in neither place: a checkpoint of the name
\* ends DuplicateName, a delete and a rollback of the name end NotFound,
\* and a clear leaves the file.
C21_Orphaned ==
  [][CreateCutShort =>
       LET x == last.target IN
       /\ pathExists(files, CheckpointPath(x))
       /\ x \notin IndexNames(Index)
       /\ (last'.op = "create" /\ last'.target = x) =>
            last'.outcome = "DuplicateName"
       /\ (last'.op = "delete" /\ last'.name = x) =>
            last'.outcome = "NotFound"
       /\ (last'.op = "restore" /\ last'.name = x) =>
            last'.outcome = "NotFound"
       /\ last'.op = "clear" => pathExists(files', CheckpointPath(x))
    ]_vars

\* the same, of a checkpoint whose name no record had when it began
C21_OrphanedFresh ==
  [][(CreateCutShort /\ last.target \notin IndexNames(Index)) =>
       LET x == last.target IN
       /\ pathExists(files, CheckpointPath(x))
       /\ (last'.op = "create" /\ last'.target = x) =>
            last'.outcome = "DuplicateName"
       /\ (last'.op = "delete" /\ last'.name = x) =>
            last'.outcome = "NotFound"
       /\ (last'.op = "restore" /\ last'.name = x) =>
            last'.outcome = "NotFound"
       /\ last'.op = "clear" => pathExists(files', CheckpointPath(x))
    ]_vars

\* the names of the records, in the order of the index
NamesOf(cps) == [i \in 1..Len(cps) |-> cps[i].name]

\* cps without some of its records: what is left keeps its order
RECURSIVE Thinned(_, _)
Thinned(rest, cps) ==
  IF Len(rest) = 0 THEN TRUE
  ELSE IF Len(cps) = 0 THEN FALSE
  ELSE IF rest[1] = cps[1] THEN Thinned(Tail(rest), Tail(cps))
  ELSE Thinned(rest, Tail(cps))

\* C22: the index is append-only in creation order. A checkpoint that
\* succeeds leaves the index it found with exactly its own record added at
\* the end; any other step leaves the index as it was, unless it is a delete
\* or a clear that succeeds, which takes records out and keeps the order of
\* the rest; so the index lists the snapshots that were taken and not
\* removed since, in the order they were taken.
C22_AppendOnly ==
  [][/\ (last'.op = "create" /\ last'.outcome = "ok"
           /\ ~pathExists(files, CheckpointPath(last'.target))) =>
          /\ Len(Index') = Len(Index) + 1
          /\ SubSeq(Index', 1, Len(Index)) = Index
          /\ Index'[Len(Index')].name = last'.target
          /\ Index'[Len(Index')].file = CheckpointFile(last'.target)
     /\ Index' # Index =>
          \/ /\ last'.op = "create" /\ last'.outcome = "ok"
             /\ ~pathExists(files, CheckpointPath(last'.target))
          \/ /\ last'.op \in {"delete", "clear"} /\ last'.outcome = "ok"
             /\ Len(Index') < Len(Index)
             /\ Thinned(Index', Index)
     /\ NamesOf(Index') = [i \in 1..Len(log') |-> log'[i].name]
    ]_vars

\* a checkpoint named a succeeded on an index of one record: its record is
\* the last of two, after the record with the generated name
C22_Witness ==
  /\ last.op = "create" /\ last.outcome = "ok" /\ last.target = "a"
  /\ Len(Index) = 2
  /\ Index[1].name = AutoName(1) /\ Index[2].name = "a"
  /\ Len(log) = 2 /\ log[2].name = "a"

\* C23: rollback does not change the store. A rollback, whether it
\* succeeded, failed or was killed, leaves meta.json and every file other
\* than the database and its sidecars as they were; one that succeeded
\* leaves the database with the content of the snapshot file, which is
\* still there with that content, so that a rollback to the same checkpoint
\* right after it succeeds again and leaves the same database.
C23_RestoreKeepsStore ==
  [][last'.op = "restore" =>
       /\ meta' = meta
       /\ cpDir' = cpDir
       /\ SnapshotFiles(files') = SnapshotFiles(files)
       /\ \A p \in SnapshotFiles(files) : files'[p] = files[p]
       /\ last'.outcome = "ok" =>
            LET src == CheckpointPath(last'.target)
            IN  /\ pathExists(files', src)
                /\ files'[dbPath] = files'[src]
                /\ files'[src] = files[src]
       /\ (last'.outcome = "ok" /\ last.op = "restore" /\ last.outcome = "ok"
             /\ last'.target = last.target) =>
            files'[dbPath] = files[dbPath]
    ]_vars

\* the snapshot "A" of two came back over an empty database: both records
\* and both snapshot files are still there
C23_Witness ==
  /\ last.op = "restore" /\ last.outcome = "ok" /\ last.replaced = {""}
  /\ Len(Index) = 2
  /\ \A i \in 1..2 : pathExists(files, RecordPath(Index[i]))
  /\ files[dbPath] = "A" /\ files[CheckpointPath(last.target)] = "A"
\* C24: clear is gated by its question. A clear without --force whose
\* question is answered no ends cancelled, removes no file and does not
\* write meta.json; a clear of an empty index, forced or not, ends without
\* putting the question and changes nothing; a clear that removes anything
\* was forced or was answered yes.
C24_ClearGated ==
  [][last'.op = "clear" =>
       /\ (Len(Index) > 0 /\ ~last'.force /\ ~last'.confirm) =>
            /\ last'.outcome = "cancelled" /\ last'.asked
            /\ files' = files /\ meta' = meta /\ cpDir' = cpDir
       /\ Len(Index) = 0 =>
            /\ last'.outcome = "empty" /\ ~last'.asked
            /\ files' = files /\ meta' = meta /\ cpDir' = cpDir
       /\ (files' # files \/ meta' # meta) =>
            last'.force \/ (last'.asked /\ last'.confirm)
       /\ last'.asked => ~last'.force
    ]_vars

\* a clear of two snapshots was asked about and refused: both are there
C24_Witness ==
  /\ last.op = "clear" /\ last.outcome = "cancelled"
  /\ last.asked /\ ~last.confirm /\ ~last.force
  /\ Len(Index) = 2
  /\ \A i \in 1..2 : pathExists(files, RecordPath(Index[i]))
\* the paths the records of the index name
RecordPaths(cps) == {RecordPath(cps[i]) : i \in 1..Len(cps)}

\* C26: index and directory stay in step while every command runs to its
\* end, one after the other, from a project without checkpoints: after each
\* command the files the records name are exactly the snapshot files there
\* are, one file per record, meta.json is absent or readable, and so every
\* record that is listed can be restored.
C26_InSync ==
  /\ RecordPaths(Index) = SnapshotFiles(files)
  /\ Cardinality(RecordPaths(Index)) = Len(Index)
  /\ meta.kind \in {"missing", "json"}
  /\ SnapshotFiles(files) # {} => cpDir

\* a delete took one of three snapshots: two records, their two files
C26_Witness ==
  /\ last.op = "delete" /\ last.outcome = "ok" /\ last.count = 1
  /\ Len(Index) = 2
  /\ Cardinality(SnapshotFiles(files)) = 2
  /\ \A i \in 1..2 : pathExists(files, RecordPath(Index[i]))
\* C27: checkpoints survive db:fresh. db:fresh, whether its reinstall
\* succeeded or not, leaves meta.json, the checkpoint directory and every
\* file but the database and its sidecars as they were, and leaves no
\* sidecar; a rollback by name that succeeds right after it leaves the
\* database with what it held when that checkpoint was taken.
C27_SurvivesFresh ==
  [][/\ last'.op = "db:fresh" =>
          /\ meta' = meta /\ cpDir' = cpDir
          /\ SnapshotFiles(files') = SnapshotFiles(files)
          /\ \A p \in SnapshotFiles(files) : files'[p] = files[p]
          /\ DOMAIN files' \cap SidecarPaths = {}
          /\ pathExists(files', dbPath) <=> last'.outcome = "ok"
     /\ (last.op = "db:fresh" /\ last'.op = "restore"
           /\ last'.name \in IndexNames(Index)) =>
          /\ last'.outcome = "ok"
          /\ pathExists(files', dbPath)
          /\ \E i \in 1..Len(log) :
               /\ log[i].name = last'.name
               /\ log[i].content = files'[dbPath]
               /\ \A j \in 1..Len(log) : log[j].name = last'.name => j = i
    ]_vars

\* the checkpoint a held "A"; db:fresh failed to reinstall and left no
\* database; rollback a brought "A" back
C27_Witness ==
  /\ last.op = "restore" /\ last.outcome = "ok" /\ last.name = "a"
  /\ last.replaced = {} /\ last.count = 0
  /\ files[dbPath] = "A"
(***************************************************************************)
(* Properties of commands running side by side.                            *)
(***************************************************************************)
\* process p writes the index of its checkpoint in this step
WritesIndex(p) ==
  /\ run.proc[p].op = "create" /\ run.proc[p].pc = "write"
  /\ run'.proc[p].pc = "done"

\* C18: lost update. The index a checkpoint writes is the index as it read
\* it plus its own record: it reports success, and every record another
\* command put into the index since that read is no longer in the index,
\* while the snapshot files stay as they are. So two checkpoints of
\* different names that overlap can both succeed and leave one record.
C18_LostUpdate ==
  [][\A p \in Procs : WritesIndex(p) =>
       /\ run'.proc[p].outcome = "ok"
       /\ meta'.kind = "json"
       /\ Len(Index') = Len(run.proc[p].cps) + 1
       /\ Index'[Len(Index')].name = run.proc[p].target
       /\ \A i \in 1..Len(Index) :
            Key(Index[i]) \notin Keys(run.proc[p].cps)
              /\ Index[i].name # run.proc[p].target
              => Index[i].name \notin IndexNames(Index')
       /\ files' = files
    ]_vars

\* two checkpoints, "a" and a generated name, both reported success; the
\* index has one record and both snapshot files are on disk
C18_Witness ==
  /\ \A p \in Procs :
       run.proc[p].op = "create" /\ run.proc[p].pc = "done"
         /\ run.proc[p].outcome = "ok"
  /\ run.proc[1].target # run.proc[2].target
  /\ run.started = 2
  /\ Len(Index) = 1
  /\ \A p \in Procs : pathExists(files, CheckpointPath(run.proc[p].target))
  /\ \E p \in Procs : run.proc[p].target \notin IndexNames(Index)

\* process p writes the index in this step
Writes(p) ==
  /\ run.proc[p].op \in {"create", "delete", "clear"}
  /\ run.proc[p].pc = "write"
  /\ run'.proc[p].pc = "done"

\* C19: deleted is terminal between commands that do not overlap. The index
\* changes only when a command writes it; a command that no other command's
\* index write has overtaken since it read the index brings no record into
\* the index, except that a checkpoint adds one record, of its own name, at
\* the end. So a record that a delete or a clear took out comes back only
\* through a new checkpoint of its name, or through the write of a command
\* that was overtaken.
C19_TerminalApart ==
  [][/\ Index' # Index => \E p \in Procs : Writes(p)
     /\ \A p \in Procs : (Writes(p) /\ ~run.proc[p].raced) =>
          \A i \in 1..Len(Index') :
            Key(Index'[i]) \notin Keys(Index) =>
              /\ run.proc[p].op = "create"
              /\ Index'[i].name = run.proc[p].target
              /\ i = Len(Index')
     /\ \A i \in 1..Len(Index') :
          (Key(Index'[i]) \in run.gone /\ Key(Index'[i]) \notin Keys(Index)) =>
            \E p \in Procs :
              /\ Writes(p)
              /\ \/ WritesIndex(p) /\ run.proc[p].target = Index'[i].name
                 \/ run.proc[p].raced
    ]_vars

\* "a" was deleted; a checkpoint of another name that ran after the delete
\* wrote the index, and "a" is not in it
C19_Witness ==
  /\ run.gone # {}
  /\ \E p \in Procs :
       /\ run.proc[p].op = "create" /\ run.proc[p].outcome = "ok"
       /\ ~run.proc[p].raced
       /\ run.proc[p].target \in IndexNames(Index)
       /\ \A g \in run.gone : g[1] # run.proc[p].target
  /\ \A g \in run.gone : g[1] \notin IndexNames(Index)

\* C19 as stated: whatever the interleaving, a record that a delete or a
\* clear took out of the index does not come back into the index, unless a
\* checkpoint of the same name adds it.
C19_DeletedTerminal ==
  [][\A i \in 1..Len(Index') :
       (Key(Index'[i]) \in run.gone /\ Key(Index'[i]) \notin Keys(Index)) =>
         \E p \in Procs : WritesIndex(p) /\ run.proc[p].target = Index'[i].name
    ]_vars

(***************************************************************************)
(* Properties of the configuration document.                               *)
(***************************************************************************)
Loaded(file) == loadBlueprint(file).value
DeepKeys == {"preferredVersions", "wpsmith"}
NestedKeys == {"php", "wp", "port"}

\* key k of `after` is the partial's where the partial has it, else as before
Carried(k, before, partial, after) ==
  IF k \in DOMAIN partial THEN k \in DOMAIN after /\ after[k] = partial[k]
  ELSE IF k \in DOMAIN before THEN k \in DOMAIN after /\ after[k] = before[k]
  ELSE k \notin DOMAIN after

\* C6: merge preserves untouched fields. After a save, a load returns, for
\* every top-level key but the two deep-merged ones, the partial's value when
\* the partial has the key and otherwise what a load returned before; and
\* the same key by key inside preferredVersions and wpsmith.
C6_MergePreserves ==
  [][call'.op = "save" =>
       LET before == Loaded(blueprintFile)
           partial == call'.partial
           after == Loaded(blueprintFile')
       IN  /\ blueprintFile'.kind = "json"
           /\ \A k \in TopKeys \ DeepKeys :
                Carried(k, before.val, partial.val, after.val)
           /\ DOMAIN after.val \subseteq TopKeys
           /\ \A o \in DeepKeys :
                /\ o \in DOMAIN after.val
                /\ \A k \in NestedKeys :
                     Carried(k, Nested(before, o), Nested(partial, o),
                             after.val[o])
    ]_vars

\* Save({preferredVersions: {wp: "6.7"}}) kept php 8.1, the landing page and
\* port 8080
C6_Witness ==
  /\ call.op = "save"
  /\ call.partial.keys = <<"preferredVersions">>
  /\ call.partial.val["preferredVersions"] = [wp |-> "6.7"]
  /\ DOMAIN blueprintFile.doc.val = TopKeys
  /\ blueprintFile.doc.val["preferredVersions"] = [php |-> "8.1", wp |-> "6.7"]
  /\ blueprintFile.doc.val["wpsmith"] = [port |-> 8080]
  /\ blueprintFile.doc.val["landingPage"] = "/wp-admin/"

\* C7: fail open. A load never raises; of a document that is missing,
\* unreadable or malformed it returns the default document: the schema id,
\* php 8.3 and wp latest, port 9400, and nothing else.
C7_FailOpen ==
  call.op = "load" =>
    /\ ~call.threw
    /\ blueprintFile.kind # "json" =>
         /\ call.ret.keys = <<"$schema", "preferredVersions", "wpsmith">>
         /\ DOMAIN call.ret.val = {"$schema", "preferredVersions", "wpsmith"}
         /\ call.ret.val["$schema"] =
              "https://playground.wordpress.net/blueprint-schema.json"
         /\ call.ret.val["preferredVersions"] = [php |-> "8.3", wp |-> "latest"]
         /\ call.ret.val["wpsmith"] = [port |-> 9400]

\* a malformed document was loaded
C7_Witness ==
  /\ call.op = "load"
  /\ blueprintFile.kind = "malformed"
  /\ call.ret.val["wpsmith"] = [port |-> 9400]

\* C25: save fails open like load. A save over a document that is missing,
\* unreadable or malformed does not raise and writes a JSON document that
\* is the default document with the partial merged in: the keys of the
\* two, $schema first; the partial's value for every key it has but the two
\* nested objects, the schema id otherwise; and in preferredVersions and
\* wpsmith the partial's value for every key it has there, php 8.3, wp
\* latest and port 9400 otherwise.
C25_SaveFailsOpen ==
  [][(call'.op = "save" /\ blueprintFile.kind # "json") =>
       LET partial == call'.partial
           doc == blueprintFile'.doc
       IN  /\ ~call'.threw /\ call'.caught
           /\ blueprintFile'.kind = "json"
           /\ DOMAIN doc.val =
                {"$schema", "preferredVersions", "wpsmith"} \cup DOMAIN partial.val
           /\ doc.keys[1] = "$schema"
           /\ \A k \in DOMAIN partial.val \ DeepKeys : doc.val[k] = partial.val[k]
           /\ "$schema" \notin DOMAIN partial.val =>
                doc.val["$schema"] =
                  "https://playground.wordpress.net/blueprint-schema.json"
           /\ \A k \in NestedKeys :
                /\ Carried(k, [php |-> "8.3", wp |-> "latest"],
                           Nested(partial, "preferredVersions"),
                           doc.val["preferredVersions"])
                /\ Carried(k, [port |-> 9400], Nested(partial, "wpsmith"),
                           doc.val["wpsmith"])
    ]_vars

\* Save({preferredVersions: {wp: "6.7"}}) over a document that could not be
\* read wrote the schema id, php 8.3 with wp 6.7, and port 9400
C25_Witness ==
  /\ call.op = "save" /\ call.caught
  /\ call.partial.keys = <<"preferredVersions">>
  /\ call.partial.val["preferredVersions"] = [wp |-> "6.7"]
  /\ blueprintFile.kind = "json"
  /\ blueprintFile.doc.keys = <<"$schema", "preferredVersions", "wpsmith">>
  /\ blueprintFile.doc.val["preferredVersions"] = [php |-> "8.3", wp |-> "6.7"]
  /\ blueprintFile.doc.val["wpsmith"] = [port |-> 9400]
\* C8: a load of a readable document returns php, wp and port, each with
\* its default value when the document does not set it.
C8_FullyDefaulted ==
  (call.op = "load" /\ blueprintFile.kind = "json") =>
    LET disk == blueprintFile.doc
        ret == call.ret
    IN  /\ Carried("php", [php |-> "8.3"], Nested(disk, "preferredVersions"),
                   Nested(ret, "preferredVersions"))
        /\ Carried("wp", [wp |-> "latest"], Nested(disk, "preferredVersions"),
                   Nested(ret, "preferredVersions"))
        /\ Carried("port", [port |-> 9400], Nested(disk, "wpsmith"),
                   Nested(ret, "wpsmith"))

StepsOf(blueprint) ==
  IF "steps" \in DOMAIN blueprint.val THEN blueprint.val["steps"] ELSE <<>>

\* C15: save replaces steps wholesale. The document a save persists has, as
\* its steps, exactly the partial's steps array when the partial has one (no
\* element of the old array survives), and otherwise the steps the existing
\* document had, unchanged, or none when it had none.
C15_StepsWholesale ==
  [][call'.op = "save" =>
       LET existing == Loaded(blueprintFile)
           partial == call'.partial
           persisted == blueprintFile'.doc
       IN  /\ blueprintFile'.kind = "json"
           /\ Carried("steps", existing.val, partial.val, persisted.val)
    ]_vars

\* [install-plugin(b)] is persisted in a document that had its steps, ahead
\* of its landing page, from the start: [install-plugin(a), set-options]
C15_Witness ==
  /\ call.op = "save"
  /\ "steps" \in DOMAIN call.partial.val
  /\ call.partial.val["steps"] = <<PluginStep("b")>>
  /\ blueprintFile.doc.keys =
       <<"$schema", "preferredVersions", "wpsmith", "steps", "landingPage">>
  /\ blueprintFile.doc.val["steps"] = <<PluginStep("b")>>

\* C16: every document a save persists has the key $schema, and it is the
\* first key of the serialized document, whatever the existing document
\* and the partial are, a partial with a $schema of its own included.
C16_SchemaFirst ==
  call.op = "save" =>
    /\ blueprintFile.kind = "json"
    /\ "$schema" \in DOMAIN blueprintFile.doc.val
    /\ Len(blueprintFile.doc.keys) >= 1
    /\ blueprintFile.doc.keys[1] = "$schema"
    /\ \A i \in 2..Len(blueprintFile.doc.keys) :
         blueprintFile.doc.keys[i] # "$schema"

\* the document on disk had $schema as its last key and the partial brought
\* a $schema of its own, which is the value persisted
C16_Witness ==
  /\ call.op = "save"
  /\ "$schema" \in DOMAIN call.partial.val
  /\ call.partial.keys = <<"$schema">>
  /\ blueprintFile.doc.keys =
       <<"$schema", "preferredVersions", "wpsmith", "steps", "landingPage">>
  /\ blueprintFile.doc.val["$schema"] = "https://example.org/other-schema.json"

\* the steps that are install-plugin steps with a slug, by position
Slugged(steps) ==
  {i \in 1..Len(steps) :
     /\ steps[i].step = "installPlugin"
     /\ "pluginData" \in DOMAIN steps[i]
     /\ "slug" \in DOMAIN steps[i].pluginData
     /\ steps[i].pluginData.slug # ""}
\* the k-th of a set of positions
Kth(positions, k) ==
  CHOOSE i \in positions : Cardinality({j \in positions : j < i}) = k - 1


\* C9: the plugin list is the slugs of the install-plugin steps that have a
\* non-empty slug, in step order, one entry per such step; every other step
\* is skipped, an install-plugin step without a slug included; it is empty
\* when there are no steps.
C9_PluginProjection ==
  call.op = "plugins" =>
    LET steps == StepsOf(call.ret)
        at == Slugged(steps)
    IN  /\ Len(call.plugins) = Cardinality(at)
        /\ \A k \in 1..Len(call.plugins) :
             call.plugins[k] = steps[Kth(at, k)].pluginData.slug

\* C9 as stated: one entry per install-plugin step (a step tagged
\* installPlugin that carries pluginData)
C9_AsStated ==
  call.op = "plugins" =>
    LET steps == StepsOf(call.ret)
        at == {i \in 1..Len(steps) :
                 /\ steps[i].step = "installPlugin"
                 /\ "pluginData" \in DOMAIN steps[i]}
    IN  /\ Len(call.plugins) = Cardinality(at)
        /\ \A k \in 1..Len(call.plugins) :
             call.plugins[k] = steps[Kth(at, k)].pluginData.slug

\* [install-plugin(a), set-options, install-plugin(b)] gave [a, b]
C9_Witness ==
  /\ call.op = "plugins"
  /\ StepsOf(call.ret) = <<PluginStep("a"), OptionsStep, PluginStep("b")>>
  /\ call.plugins = <<"a", "b">>

C28_IntegerPort ==
  serve.pc # "idle" =>
    LET wpsmith == Nested(Loaded(blueprintFile), "wpsmith")
    IN  /\ serve.requestedPort.type = "number"
        /\ serve.requestedPort.num =
             IF serve.options.port # Undefined
               THEN CHOOSE n \in 0..65535 : ToString(n) = serve.options.port.str
             ELSE IF "port" \in DOMAIN wpsmith THEN wpsmith["port"]
             ELSE 9400

\* the same, of a document that is missing or unreadable or whose wpsmith
\* block, if it has one, has a port
C28_PortWhenSet ==
  (serve.pc # "idle"
     /\ (serve.options.port # Undefined
          \/ "port" \in DOMAIN Nested(Loaded(blueprintFile), "wpsmith"))) =>
    LET wpsmith == Nested(Loaded(blueprintFile), "wpsmith")
    IN  /\ serve.requestedPort.type = "number"
        /\ serve.requestedPort.num =
             IF serve.options.port # Undefined THEN 3000
             ELSE wpsmith["port"]

\* C29: whatever the child prints and however it ends, serve prints its
\* banner at most once and opens the browser at most once, with the banner
\* and only without --no-open; the banner is printed only when a chunk of
\* the child's stdout held Ready!; a chunk of the child's stdout is written
\* out only when the banner had been printed before it came; and when the
\* child closes with a code other than 0 and no banner was printed, serve
\* exits with status 1.
C29_BannerOnce ==
  [][/\ serve'.banners <= 1
     /\ serve'.banners = 1 => serve'.ready
     /\ serve'.opened = IF serve'.options.open THEN serve'.banners ELSE 0
     /\ serve'.stdout # serve.stdout => serve.banners = 1
     /\ (serve.pc = "running" /\ serve'.pc = "exited"
           /\ serve'.code \notin {Undefined, Num(0)} /\ serve.banners = 0) =>
          serve'.status = 1
    ]_vars

\* a chunk came before Ready! and was not shown; Ready! came and the banner
\* was printed and the browser opened; the next chunk was shown
C29_Witness ==
  /\ serve.pc = "running" /\ serve.events = 3
  /\ serve.ready /\ serve.banners = 1 /\ serve.opened = 1
  /\ serve.stdout = <<"Rea">>

\* the child closed with code 1 before it was ready
C29_FailedStart ==
  /\ serve.pc = "exited" /\ serve.code = Num(1)
  /\ serve.banners = 0 /\ serve.status = 1

====
